---------------------------- MODULE Spec2Model ----------------------------
(***************************************************************************)
(* Model of the Webshare/TMDB organizer (src/organizer-git.py).            *)
(*                                                                         *)
(* Spec       the command-line program: run(), manual additions and        *)
(*            remove_content, each a fresh process working on the three    *)
(*            persisted files (catalog, manual store, scan status).        *)
(* SpecMerge  update_main_database_with_manual_content_fixed applied to    *)
(*            entries drawn from a bounded set.                            *)
(* SpecSweep  the scan-cache and get_tmdb_with_translations under a fine   *)
(*            clock.                                                       *)
(* SpecRank   the add-on's stream ranking (src/plugin.video.mila/mila.py). *)
(* SpecRL     threads using the Search Gateway: _rate_limit, search        *)
(*            requests and login requests under a shared clock.            *)
(* SpecLogin  login with its retries through the same gateway.             *)
(* SpecSearch search_webshare_comprehensive: variations, batches, pages.   *)
(* SpecSave   a merge whose save is a separate open and dump of the file.  *)
(* SpecOrganize  organize_tv_episodes applied to bounded file lists.       *)
(* SpecKey    generate_content_id applied to bounded titles and years.     *)
(* SpecPages  search_webshare_paginated over bounded page contents.        *)
(* SpecFilter filename_contains_title and the filter of find_movie_files   *)
(*            applied to bounded titles and file names.                    *)
(***************************************************************************)
EXTENDS Integers, Sequences, FiniteSets, TLC

VARIABLES
    catalog,        \* kodi_tmdb_cz.json: [exists, movies, tv_shows]
    manual,         \* manual_content.json: [movies, tv_shows]
    scan,           \* scan_status.json: [movies, tv] maps str(tmdb_id) -> time
    clock,          \* time.time(), in the unit of the running specification
    pc,             \* position of the running command ("idle": none running)
    incremental,    \* self.incremental
    existing_data,  \* self.existing_data (NoData when None)
    token,          \* self.token is set
    todo,           \* run(): titles still to process, [movies, tv]
    pending,        \* a result computed and not yet merged / stored
    todoManual,     \* run(): manual entries still to re-merge
    op,             \* history: name of the last operation step
    mergeLog,       \* history: the merge the last step made, if it made one
    sweepLog,       \* history: the last sweep
    lock,           \* request_lock holder (0: free)
    last_request_time, \* self.last_request_time
    tpc,            \* per thread position in the gateway
    wake,           \* per thread end of the current time.sleep
    attempt,        \* per thread login attempt number
    sent,           \* history: the outbound requests, latest last
    commands,       \* number of command-line invocations started
    search,         \* position and locals of search_webshare_comprehensive
    rank,           \* the add-on's stream ranking: settings, streams, result
    applied,        \* a function applied on its own: arguments and outcome
    removedIds,     \* history: ExternalIds removed by remove_content and not
                    \* resolved or added again since
    tvLog           \* history: the last call of organize_tv_episodes

vars == <<catalog, manual, scan, clock, pc, incremental, existing_data, token,
          todo, pending, todoManual, op, mergeLog, sweepLog,
          lock, last_request_time, tpc, wake, attempt, sent, commands,
          search, rank, applied, removedIds, tvLog>>

fileVars == <<catalog, manual, scan>>
procVars == <<pc, incremental, existing_data, token, todo, pending, todoManual>>
gateVars == <<lock, last_request_time, tpc, wake, attempt, sent>>
progVars == <<fileVars, procVars, clock, op, mergeLog, sweepLog, commands, gateVars,
              removedIds>>

-----------------------------------------------------------------------------
(* Bounds *)

MaxTmdb == 1        \* ExternalIds are the numbers 1..MaxTmdb
MaxIdent == 2       \* file idents are 1..MaxIdent
MaxTicks == 1       \* clock advances per behaviour of Spec
MaxSeason == 1      \* season numbers in filenames are 1..MaxSeason
MaxEpisode == 1     \* episode numbers in filenames are 1..MaxEpisode
MaxFound == 2       \* files one search returns
MaxCommands == 3    \* command-line invocations per behaviour of Spec

TmdbNums == 1..MaxTmdb
Idents == 1..MaxIdent
Seasons == 1..MaxSeason
Episodes == 1..MaxEpisode
Kinds == {"movie", "tv"}

-----------------------------------------------------------------------------
(* Sequences helpers *)

Range(s) == {s[i] : i \in 1..Len(s)}

RECURSIVE SetToSeq(_)
SetToSeq(S) ==
    IF S = {} THEN <<>>
    ELSE LET m == CHOOSE x \in S : \A y \in S : x <= y
         IN <<m>> \o SetToSeq(S \ {m})

RECURSIVE SelectNotIn(_, _)
SelectNotIn(s, S) ==
    IF s = <<>> THEN <<>>
    ELSE (IF Head(s) \in S THEN <<>> ELSE <<Head(s)>>) \o SelectNotIn(Tail(s), S)

-----------------------------------------------------------------------------
(* ExternalId values: Python ints, Python strs, or None *)

NoId == [ty |-> "none", n |-> 0]
IntId(n) == [ty |-> "int", n |-> n]
StrId(n) == [ty |-> "str", n |-> n]
IdForms == {"int", "str"}
MkId(ty, n) == [ty |-> ty, n |-> n]

\* str(tmdb_id): the decimal text of a number equals the text itself
Str(id) == id.n

\* Python truthiness of a tmdb_id (ids here are >= 1, None is falsy)
Truthy(id) == id.ty # "none"

-----------------------------------------------------------------------------
(* TitleKey *)

Chars == {"A", "a", "B", "b", " ", "1"}

Lower(c) ==
    CASE c = "A" -> "a" [] c = "B" -> "b" [] c = "D" -> "d" [] c = "M" -> "m"
      [] c = "R" -> "r" [] c = "T" -> "t" [] OTHER -> c

LowerSeq(s) == [i \in 1..Len(s) |-> Lower(s[i])]

RECURSIVE LStrip(_)
LStrip(s) == IF s # <<>> /\ Head(s) = " " THEN LStrip(Tail(s)) ELSE s

RECURSIVE RStrip(_)
RStrip(s) ==
    IF s # <<>> /\ s[Len(s)] = " " THEN RStrip(SubSeq(s, 1, Len(s) - 1)) ELSE s

Strip(s) == RStrip(LStrip(s))

\* generate_content_id: the 8 hex digits of the md5 are modelled as an
\* injective tag of the hashed text
generate_content_id(title, year) == <<"md5">> \o Strip(LowerSeq(title) \o year)

\* metadata the catalog service returns for a number (title_en, year)
TmdbTitle(n) == IF n % 2 = 1 THEN <<"A", "b">> ELSE <<"B", "a">>
TmdbYear(n) == <<"1">>

-----------------------------------------------------------------------------
(* Text: a str is the sequence of its characters *)

\* pattern in s, at position i
IsAt(pattern, s, i) ==
    /\ i + Len(pattern) - 1 <= Len(s)
    /\ \A k \in 1..Len(pattern) : s[i + k - 1] = pattern[k]

\* pattern in s
Contains(s, pattern) == \E i \in 1..(Len(s) + 1) : IsAt(pattern, s, i)

\* s.replace(old, new) for single characters
Replace(s, old, new) == [i \in 1..Len(s) |-> IF s[i] = old THEN new ELSE s[i]]

\* the non-empty pieces of s between characters of seps, in order
RECURSIVE Pieces(_, _, _)
Pieces(s, seps, word) ==
    IF s = <<>> THEN (IF word = <<>> THEN <<>> ELSE <<word>>)
    ELSE IF Head(s) \in seps
         THEN (IF word = <<>> THEN <<>> ELSE <<word>>) \o Pieces(Tail(s), seps, <<>>)
         ELSE Pieces(Tail(s), seps, Append(word, Head(s)))

Digits == {"0", "1", "2", "3", "4", "5", "6", "7", "8", "9"}

\* re.search(pattern, s) for a pattern of literal characters, '.', a leading
\* '^' and a trailing '$'
RegexSearch(pattern, s) ==
    LET atStart == pattern # <<>> /\ Head(pattern) = "^"
        p1 == IF atStart THEN Tail(pattern) ELSE pattern
        atEnd == p1 # <<>> /\ p1[Len(p1)] = "$"
        body == IF atEnd THEN SubSeq(p1, 1, Len(p1) - 1) ELSE p1
    IN  \E i \in 1..(Len(s) + 1) :
            /\ atStart => i = 1
            /\ atEnd => i + Len(body) - 1 = Len(s)
            /\ i + Len(body) - 1 <= Len(s)
            /\ \A k \in 1..Len(body) : body[k] = "." \/ body[k] = s[i + k - 1]

\* re.compile raises re.error: an opening parenthesis that is never closed
RegexError(pattern) == "(" \in Range(pattern)

-----------------------------------------------------------------------------
(* Candidate filter *)

Returns(value) == [raised |-> "none", value |-> value]
Raised(exception) == [raised |-> exception, value |-> FALSE]

base_patterns(title_lower) ==
    <<title_lower, Replace(title_lower, " ", "."), Replace(title_lower, " ", "-"),
      Replace(title_lower, " ", "_")>>

pattern_with_separators(p) ==
    << <<" ">> \o p \o <<" ">>, <<".">> \o p \o <<".">>, <<"-">> \o p \o <<"-">>,
       <<"_">> \o p \o <<"_">>, <<" ">> \o p \o <<".">>, <<".">> \o p \o <<" ">>,
       <<" ">> \o p \o <<"-">>, <<"-">> \o p \o <<" ">>, <<" ">> \o p \o <<"_">>,
       <<"_">> \o p \o <<" ">>, <<"^">> \o p, p \o <<"$">>, <<"^">> \o p \o <<".">>,
       <<"^">> \o p \o <<"-">>, <<"^">> \o p \o <<"_">>, <<".">> \o p \o <<"$">>,
       <<"-">> \o p \o <<"$">>, <<"_">> \o p \o <<"$">> >>

\* 'if year and str(year)' ... 'if str(year) in clean_filename'
YearOk(year, clean_filename) == year = <<>> \/ Contains(clean_filename, year)

\* the word test of the less strict matching for one pattern found in the
\* file name: "True", "ZeroDivisionError" or "next"
WordTest(pattern, clean_filename, year) ==
    LET pattern_words == Pieces(Replace(Replace(Replace(pattern, ".", " "), "-", " "),
                                        "_", " "), {" "}, <<>>)
        filename_words == Range(Pieces(clean_filename, {".", "-", "_", " "}, <<>>))
        matches == Cardinality({i \in 1..Len(pattern_words) :
                                  pattern_words[i] \in filename_words})
    IN  IF Len(pattern_words) = 0 THEN "ZeroDivisionError"
        ELSE IF 10 * matches >= 7 * Len(pattern_words) /\ YearOk(year, clean_filename)
             THEN "True" ELSE "next"

\* the loop over the patterns, less strict: the first that returns or raises
RECURSIVE LooseScan(_, _, _)
LooseScan(patterns, clean_filename, year) ==
    IF patterns = <<>> THEN "next"
    ELSE LET step == IF Contains(clean_filename, Head(patterns))
                     THEN WordTest(Head(patterns), clean_filename, year) ELSE "next"
         IN  IF step = "next" THEN LooseScan(Tail(patterns), clean_filename, year)
             ELSE step

\* the loops of the strict matching
StrictScan(patterns, clean_filename, year) ==
    IF RegexError(patterns[1]) THEN "re.error"
    ELSE IF \E i \in 1..Len(patterns) :
               \E j \in 1..18 :
                   /\ RegexSearch(pattern_with_separators(patterns[i])[j], clean_filename)
                   /\ YearOk(year, clean_filename)
         THEN "True" ELSE "next"

The == <<"t", "h", "e", " ">>

filename_contains_title(filename, title, year, strict) ==
    IF title = <<>> \/ filename = <<>> THEN Returns(FALSE)
    ELSE LET clean_filename == LowerSeq(filename)
             title_lower == LowerSeq(title)
             first == IF strict
                      THEN StrictScan(base_patterns(title_lower), clean_filename, year)
                      ELSE LooseScan(base_patterns(title_lower), clean_filename, year)
             second == IF IsAt(The, title_lower, 1) /\ ~strict
                       THEN LooseScan(base_patterns(SubSeq(title_lower, 5, Len(title_lower))),
                                      clean_filename, year)
                       ELSE "next"
         IN  IF first = "True" THEN Returns(TRUE)
             ELSE IF first # "next" THEN Raised(first)
             ELSE IF second = "True" THEN Returns(TRUE)
             ELSE IF second # "next" THEN Raised(second)
             ELSE Returns(FALSE)

Letters ==
    {"a", "b", "c", "d", "e", "f", "g", "h", "i", "j", "k", "l", "m", "n", "o", "p", "q",
     "r", "s", "t", "u", "v", "w", "x", "y", "z"}

\* \w and \s
WordChars == Letters \cup Digits \cup {"_"}
Spaces == {" "}

DigitAt(s, i) == i \in 1..Len(s) /\ s[i] \in Digits

\* text, then \s*, then a digit
ThenSpacesDigit(s, text) ==
    \E i \in 1..Len(s) : \E j \in (i + Len(text))..Len(s) :
        /\ IsAt(text, s, i)
        /\ \A k \in (i + Len(text))..(j - 1) : s[k] \in Spaces
        /\ s[j] \in Digits

\* [Ss]\d{1,2}[Ee]\d{1,2}|\d{1,2}[Xx]\d{1,2}|season\s*\d|episode\s*\d|ep\.\d
EpisodeMarker(s) ==
    \/ \E i \in 1..Len(s) :
          /\ s[i] \in {"s", "S"}
          /\ DigitAt(s, i + 1)
          /\ \/ i + 3 <= Len(s) /\ s[i + 2] \in {"e", "E"} /\ DigitAt(s, i + 3)
             \/ i + 4 <= Len(s) /\ DigitAt(s, i + 2) /\ s[i + 3] \in {"e", "E"}
                  /\ DigitAt(s, i + 4)
    \/ \E i \in 1..Len(s) :
          DigitAt(s, i) /\ i + 2 <= Len(s) /\ s[i + 1] \in {"x", "X"} /\ DigitAt(s, i + 2)
    \/ ThenSpacesDigit(s, <<"s", "e", "a", "s", "o", "n">>)
    \/ ThenSpacesDigit(s, <<"e", "p", "i", "s", "o", "d", "e">>)
    \/ \E i \in 1..Len(s) : IsAt(<<"e", "p", ".">>, s, i) /\ DigitAt(s, i + 3)

\* re.findall(r'\b(19[0-9]{2}|20[0-9]{2})\b', s)
all_years(s) ==
    {SubSeq(s, i, i + 3) : i \in {k \in 1..(Len(s) - 3) :
        /\ \/ s[k] = "1" /\ s[k + 1] = "9"
           \/ s[k] = "2" /\ s[k + 1] = "0"
        /\ s[k + 2] \in Digits /\ s[k + 3] \in Digits
        /\ k = 1 \/ s[k - 1] \notin WordChars
        /\ k + 3 = Len(s) \/ s[k + 4] \notin WordChars}}

bullshit_patterns ==
    {<<"r", "o", "l", "l", "i", "n", "g", " ", "s", "t", "o", "n", "e", "s">>,
     <<"b", "a", "n", "g", " ", "t", "a", "n", "g", "o">>,
     <<"c", "h", "r", "i", "s", " ", "i", "s", "a", "a", "k">>,
     <<"b", "i", "l", "l", "y", " ", "j", "o", "e", "l">>,
     <<"j", "e", "n", "n", "i", "f", "e", "r", " ", "r", "u", "s", "h">>,
     <<"u", "n", "u", "s", " ", "a", "n", "n", "u", "s">>,
     <<"y", "o", "u", "t", "u", "b", "e">>,
     <<"c", ".", "c", ".">>}

\* the noise patterns: the names, ep\.\s*\d{1,3}, \d{1,3}\s*-\s* and #\d{1,3}
is_bullshit(s) ==
    \/ \E name \in bullshit_patterns : Contains(s, name)
    \/ ThenSpacesDigit(s, <<"e", "p", ".">>)
    \/ \E i \in 1..Len(s) : \E j \in (i + 1)..Len(s) :
          /\ s[i] \in Digits
          /\ \A k \in (i + 1)..(j - 1) : s[k] \in Spaces
          /\ s[j] = "-"
    \/ \E i \in 1..Len(s) : s[i] = "#" /\ DigitAt(s, i + 1)

words_to_remove ==
    {<<"t", "h", "e">>, <<"a">>, <<"a", "n">>, <<"a", "n", "d">>, <<"&">>, <<"o", "r">>, <<"b", "u", "t">>, <<"i", "n">>, <<"o", "n">>, <<"a", "t">>, <<"t", "o">>, <<"f", "o", "r">>, <<"o", "f">>, <<"w", "i", "t", "h">>, <<"b", "y">>}

is_single_word_title(title) ==
    IF title = <<>> THEN FALSE
    ELSE LET lower == LowerSeq(title)
             cleaned == [i \in 1..Len(lower) |->
                            IF lower[i] \in WordChars \cup Spaces \cup {"-"}
                            THEN lower[i] ELSE " "]
             words == SelectSeq(Pieces(cleaned, Spaces, <<>>),
                                LAMBDA w : w \notin words_to_remove /\ Len(w) > 1)
         IN  Len(words) = 1

\* find_movie_files, the filter applied to one file found: "keep", "drop" or
\* the exception raised
FilterFile(name, title_en, title_cz, year) ==
    LET filename == LowerSeq(name)
        m_en == filename_contains_title(filename, title_en, year, FALSE)
        m_cz == IF m_en.raised = "none" /\ ~m_en.value /\ title_cz # <<>>
                THEN filename_contains_title(filename, title_cz, year, FALSE)
                ELSE m_en
        title_match == m_cz.value
    IN  IF m_en.raised # "none" THEN m_en.raised
        ELSE IF m_cz.raised # "none" THEN m_cz.raised
        ELSE IF ~title_match THEN "drop"
        ELSE IF /\ is_single_word_title(IF title_cz # <<>> THEN title_cz ELSE title_en)
                /\ year # <<>> /\ ~Contains(filename, year)
             THEN "drop"
        ELSE IF EpisodeMarker(filename)
                /\ ~(year # <<>> /\ Contains(filename, year) /\ title_match)
             THEN "drop"
        ELSE IF year # <<>> /\ \E y \in all_years(filename) : y # year THEN "drop"
        ELSE IF is_bullshit(filename) THEN "drop"
        ELSE "keep"

-----------------------------------------------------------------------------
(* Python dicts with int or str keys: sequences of <<key, value>>, in      *)
(* insertion order, one pair per key                                       *)

DHas(d, k) == \E i \in 1..Len(d) : d[i][1] = k
DGet(d, k) == d[CHOOSE i \in 1..Len(d) : d[i][1] = k][2]
DSet(d, k, v) ==
    IF DHas(d, k)
    THEN [i \in 1..Len(d) |-> IF d[i][1] = k THEN <<k, v>> ELSE d[i]]
    ELSE Append(d, <<k, v>>)

\* json.dump writes an int key as its decimal text
JKey(k) == StrId(k.n)

\* json.dump followed by json.load of an episode dict: equal texts collapse,
\* the first keeps the position, the last gives the value
RECURSIVE JsonEpisodes(_, _)
JsonEpisodes(d, acc) ==
    IF d = <<>> THEN acc
    ELSE JsonEpisodes(Tail(d), DSet(acc, JKey(Head(d)[1]), Head(d)[2]))

RECURSIVE JsonSeasons(_, _)
JsonSeasons(d, acc) ==
    IF d = <<>> THEN acc
    ELSE JsonSeasons(Tail(d),
                     DSet(acc, JKey(Head(d)[1]), JsonEpisodes(Head(d)[2], <<>>)))

JsonShow(show) == [show EXCEPT !.seasons = JsonSeasons(show.seasons, <<>>)]

JsonShows(shows) == [i \in 1..Len(shows) |-> JsonShow(shows[i])]

-----------------------------------------------------------------------------
(* Persisted files *)

EmptyData == [movies |-> <<>>, tv_shows |-> <<>>]
NoFile == [exists |-> FALSE, movies |-> <<>>, tv_shows |-> <<>>]
NoData == [none |-> TRUE]

\* the file after open(output_file, 'w') and before json.dump is through:
\* empty or cut short
TornFile == [exists |-> TRUE, movies |-> <<>>, tv_shows |-> <<>>, torn |-> TRUE]

\* json.load reads the file without an exception
Parseable(file) == "torn" \notin DOMAIN file

\* load_existing_data: the returned dict
load_existing_data(file) ==
    IF ~file.exists \/ ~Parseable(file) THEN EmptyData
    ELSE [movies |-> file.movies, tv_shows |-> file.tv_shows]

\* load_existing_data: its effect on self.existing_data (set only when the
\* file was read)
LoadedExisting(file, cur) ==
    IF ~file.exists \/ ~Parseable(file) THEN cur ELSE load_existing_data(file)

\* save_data_immediately: the file after a successful save
save_data_immediately(data) ==
    [exists |-> TRUE, movies |-> data.movies,
     tv_shows |-> JsonShows(data.tv_shows)]

\* load_scan_status default; a map holds NotScanned for an absent key
NotScanned == -1
EmptyScan == [movies |-> [n \in TmdbNums |-> NotScanned],
              tv |-> [n \in TmdbNums |-> NotScanned]]

ScanMap(status, kind) == IF kind = "movie" THEN status.movies ELSE status.tv

-----------------------------------------------------------------------------
(* Scan cache *)

Day == 24 * 3600
MovieTTL == 30 * Day
TvTTL == 7 * Day

\* a check that still skips the movie when exactly 30 days have gone by
is_movie_scanned_Late(status, tmdb_id, now) ==
    /\ status.movies[Str(tmdb_id)] # NotScanned
    /\ now - status.movies[Str(tmdb_id)] <= MovieTTL

\* is_movie_scanned
is_movie_scanned(status, tmdb_id, now) ==
    /\ status.movies[Str(tmdb_id)] # NotScanned
    /\ now - status.movies[Str(tmdb_id)] < MovieTTL

\* is_tv_show_scanned
is_tv_show_scanned(status, tmdb_id, now) ==
    /\ status.tv[Str(tmdb_id)] # NotScanned
    /\ now - status.tv[Str(tmdb_id)] < TvTTL

\* mark_movie_scanned
mark_movie_scanned(status, tmdb_id, now) ==
    [status EXCEPT !.movies[Str(tmdb_id)] = now]

\* mark_tv_show_scanned
mark_tv_show_scanned(status, tmdb_id, now) ==
    [status EXCEPT !.tv[Str(tmdb_id)] = now]

Skipped(status, kind, tmdb_id, now) ==
    \/ kind = "movie" /\ is_movie_scanned(status, tmdb_id, now)
    \/ kind = "tv" /\ is_tv_show_scanned(status, tmdb_id, now)

\* the metadata record of a catalog item
Meta(tmdb_id) ==
    [tmdb_id |-> tmdb_id, title_en |-> TmdbTitle(tmdb_id.n),
     year |-> TmdbYear(tmdb_id.n)]

RECURSIVE SweepItems(_, _, _, _, _)
SweepItems(listing, kind, count, status, now) ==
    IF listing = <<>> \/ count = 0 THEN <<>>
    ELSE IF Skipped(status, kind, IntId(Head(listing)), now)
         THEN SweepItems(Tail(listing), kind, count, status, now)
         ELSE <<Meta(IntId(Head(listing)))>>
              \o SweepItems(Tail(listing), kind, count - 1, status, now)

\* get_tmdb_with_translations: listing is the popularity list the catalog
\* service returns (numbers), the result the titles to resolve
get_tmdb_with_translations(kind, count, listing, status, now) ==
    SweepItems(listing, kind, count, status, now)

-----------------------------------------------------------------------------
(* Resolution of one title *)

NoResult == [none |-> TRUE]
IsResult(r) == r # NoResult

\* index of the first entry whose tmdb_id equals tid (Python ==), 0 if none
FirstIndex(list, tid) ==
    IF \E i \in 1..Len(list) : list[i].tmdb_id = tid
    THEN CHOOSE i \in 1..Len(list) :
            /\ list[i].tmdb_id = tid
            /\ \A j \in 1..(i - 1) : list[j].tmdb_id # tid
    ELSE 0

\* the entry of self.existing_data that process_movie / process_tv_show use
ExistingEntry(data, kind, tid) ==
    IF data = NoData THEN NoResult
    ELSE LET list == IF kind = "movie" THEN data.movies ELSE data.tv_shows
             i == FirstIndex(list, tid)
         IN IF i = 0 THEN NoResult ELSE list[i]

\* process_movie: files are the idents find_movie_files returned
process_movie(movie, data, inc, files) ==
    LET existing_movie == ExistingEntry(data, "movie", movie.tmdb_id)
        existing_files == IF IsResult(existing_movie) /\ inc
                          THEN existing_movie.streams ELSE <<>>
        combined_files == existing_files \o SelectNotIn(files, Range(existing_files))
    IN IF combined_files # <<>>
       THEN [id |-> generate_content_id(movie.title_en, movie.year),
             tmdb_id |-> movie.tmdb_id,
             streams |-> combined_files]
       ELSE NoResult

\* process_movie_with_specific_file_fixed: the file of the link first, then
\* the other versions found
process_movie_with_specific_file_fixed(movie, data, inc, specific, files) ==
    LET existing_movie == ExistingEntry(data, "movie", movie.tmdb_id)
        existing_files == IF IsResult(existing_movie) /\ inc
                          THEN existing_movie.streams ELSE <<>>
        ids == Range(existing_files)
        own == IF specific \in ids THEN <<>> ELSE <<specific>>
    IN [id |-> generate_content_id(movie.title_en, movie.year),
        tmdb_id |-> movie.tmdb_id,
        streams |-> existing_files \o own \o SelectNotIn(files, ids \cup {specific})]

\* organize_tv_episodes: a file is [ident, ep, s, e, matchEn, matchCz], where
\* ep says that a season/episode pattern matched (s, e its numbers) and
\* matchEn / matchCz are filename_contains_title for the two titles
RECURSIVE Organize(_, _, _, _)
Organize(files, has_cz, seasons, seen_episodes) ==
    IF files = <<>> THEN seasons
    ELSE LET f == Head(files)
             rest == Tail(files)
             sk == IntId(f.s)
             ek == IntId(f.e)
             seasons1 == IF DHas(seasons, sk) THEN seasons ELSE DSet(seasons, sk, <<>>)
             eps == DGet(seasons1, sk)
             old == IF DHas(eps, ek) THEN DGet(eps, ek) ELSE <<>>
             file_exists == f.ident \in Range(old)
         IN IF ~f.ep THEN Organize(rest, has_cz, seasons, seen_episodes)
            ELSE IF <<f.s, f.e>> \in seen_episodes
            THEN Organize(rest, has_cz, seasons, seen_episodes)
            ELSE IF ~f.matchEn /\ has_cz /\ ~f.matchCz
            THEN Organize(rest, has_cz, seasons, seen_episodes)
            ELSE IF file_exists
            THEN Organize(rest, has_cz, seasons1, seen_episodes)
            ELSE Organize(rest, has_cz,
                          DSet(seasons1, sk, DSet(eps, ek, Append(old, f.ident))),
                          seen_episodes \cup {<<f.s, f.e>>})

organize_tv_episodes(files, has_cz, existing_seasons) ==
    Organize(files, has_cz, existing_seasons, {})

\* process_tv_show: [result, marked]; marked says mark_tv_show_scanned ran
process_tv_show(tv_show, data, inc, files, has_cz) ==
    LET existing_show == ExistingEntry(data, "tv", tv_show.tmdb_id)
        existing_seasons == IF IsResult(existing_show)
                            THEN existing_show.seasons ELSE <<>>
        seasons == organize_tv_episodes(files, has_cz, existing_seasons)
    IN IF seasons # <<>>
       THEN [result |-> [id |-> generate_content_id(tv_show.title_en, tv_show.year),
                         tmdb_id |-> tv_show.tmdb_id,
                         seasons |-> seasons],
             marked |-> Truthy(tv_show.tmdb_id)]
       ELSE [result |-> IF IsResult(existing_show) /\ inc
                        THEN existing_show ELSE NoResult,
             marked |-> FALSE]

-----------------------------------------------------------------------------
(* Catalog merge *)

\* a merge that appends the new entry whatever the list holds
MergedList_Append(list, new_content) == Append(list, new_content)

\* the list of current_data after the merge: the first entry with an equal
\* tmdb_id is replaced, otherwise the new entry is appended
MergedList(list, new_content) ==
    LET existing_index == FirstIndex(list, new_content.tmdb_id)
    IN IF existing_index > 0
       THEN [list EXCEPT ![existing_index] = new_content]
       ELSE Append(list, new_content)

\* update_main_database_with_manual_content_fixed: current_data after the
\* update, before it is saved
update_main_database_with_manual_content_fixed(file, new_content, kind) ==
    LET current_data == load_existing_data(file)
    IN IF kind = "movie"
       THEN [current_data EXCEPT !.movies = MergedList(current_data.movies, new_content)]
       ELSE [current_data EXCEPT !.tv_shows = MergedList(current_data.tv_shows, new_content)]

\* the manual store after add_content_manually stored a result
StoreManual(store, result, kind) ==
    IF kind = "movie"
    THEN [store EXCEPT !.movies = MergedList(store.movies, result)]
    ELSE [store EXCEPT !.tv_shows = JsonShows(MergedList(store.tv_shows, result))]

\* remove_content(tmdb_id=n): the entries kept
KeepList(list, n) == SelectSeq(list, LAMBDA e : ~(Truthy(e.tmdb_id) /\ Str(e.tmdb_id) = n))

-----------------------------------------------------------------------------
(* Inputs *)

\* what find_movie_files can return: idents without repetition
FoundMovie == {SetToSeq(S) : S \in {T \in SUBSET Idents : Cardinality(T) <= MaxFound}}

TvFiles == [ident : Idents, ep : BOOLEAN, s : Seasons, e : Episodes,
            matchEn : BOOLEAN, matchCz : BOOLEAN]

\* what find_tv_show_files_comprehensive can return: idents without repetition
FoundTv == {fs \in UNION {[1..k -> TvFiles] : k \in 0..MaxFound} :
               \A i, j \in 1..Len(fs) : i # j => fs[i].ident # fs[j].ident}

Listings == {SetToSeq(S) : S \in SUBSET TmdbNums}

-----------------------------------------------------------------------------
(* History *)

NoMerge == [some |-> FALSE, repeat |-> FALSE, kind |-> "movie", entry |-> NoResult,
            matched |-> FALSE, before |-> <<>>, after |-> <<>>, time |-> 0]
NoSearch == [pc |-> "idle", content_type |-> "movie", variation |-> 0,
             variations |-> 0, offset |-> 0, files |-> 0, requests |-> <<>>,
             total |-> 0]
NoRank == [some |-> FALSE]
NoCall == [fn |-> "none"]
NoOrganize == [some |-> FALSE, files |-> <<>>, has_cz |-> FALSE, existing_seasons |-> <<>>,
               seasons |-> <<>>]
NoSweep == [some |-> FALSE, kind |-> "movie", listing |-> <<>>, count |-> 0,
            result |-> <<>>]

Content(entry, kind) == IF kind = "movie" THEN entry.streams ELSE entry.seasons

KindList(data, kind) == IF kind = "movie" THEN data.movies ELSE data.tv_shows

\* the record of a merge of new_content into file at time now; repeat says
\* that the step before merged the same entry
MergeRecord(file, new_content, kind, now) ==
    LET list == KindList(load_existing_data(file), kind)
        i == FirstIndex(list, new_content.tmdb_id)
        after == KindList(save_data_immediately(
                    update_main_database_with_manual_content_fixed(file, new_content, kind)), kind)
        j == FirstIndex(after, new_content.tmdb_id)
    IN [some |-> TRUE,
        repeat |-> mergeLog.some /\ mergeLog.kind = kind /\ mergeLog.entry = new_content,
        kind |-> kind, entry |-> new_content,
        matched |-> i > 0,
        before |-> IF i > 0 THEN Content(list[i], kind) ELSE <<>>,
        after |-> Content(after[j], kind),
        time |-> now]

-----------------------------------------------------------------------------
(* The command-line program *)

NoTodo == [movies |-> <<>>, tv |-> <<>>]

\* the process ends: its memory is gone
\* the removed ExternalIds, less the one of an entry resolved or added now
StillRemoved(entry) ==
    IF Truthy(entry.tmdb_id) THEN removedIds \ {Str(entry.tmdb_id)} ELSE removedIds

Exit ==
    /\ pc' = "idle"
    /\ incremental' = TRUE
    /\ existing_data' = NoData
    /\ token' = FALSE
    /\ todo' = NoTodo
    /\ pending' = NoResult
    /\ todoManual' = <<>>

\* the merge of new_content: the catalog file is rewritten
MergeFile(new_content, kind) ==
    /\ catalog' = save_data_immediately(
                    update_main_database_with_manual_content_fixed(catalog, new_content, kind))
    /\ mergeLog' = MergeRecord(catalog, new_content, kind, clock)

\* the merge of new_content by a process that goes on: self.existing_data is
\* the mutated current_data when the file could be loaded
DoMerge(new_content, kind) ==
    /\ MergeFile(new_content, kind)
    /\ existing_data' =
          IF catalog.exists
          THEN update_main_database_with_manual_content_fixed(catalog, new_content, kind)
          ELSE existing_data

AfterPc(t) ==
    IF t.movies # <<>> THEN "run_movies"
    ELSE IF t.tv # <<>> THEN "run_tv" ELSE "run_manual"

\* a run() that goes on to the sweep when login() returned False
RunStart_GoesOn(inc, loginOk) ==
    /\ pc = "idle"
    /\ commands < MaxCommands
    /\ commands' = commands + 1
    /\ pc' = "run_sweep_movies"
    /\ incremental' = inc
    /\ existing_data' = load_existing_data(catalog)
    /\ token' = loginOk
    /\ UNCHANGED <<todo, pending, todoManual>>
    /\ op' = IF loginOk THEN "run_start" ELSE "run_login_failed"
    /\ mergeLog' = NoMerge
    /\ UNCHANGED <<fileVars, clock, sweepLog, gateVars, search, rank, applied, removedIds, tvLog>>

\* run(): load_existing_data and login
RunStart(inc, loginOk) ==
    /\ pc = "idle"
    /\ commands < MaxCommands
    /\ commands' = commands + 1
    /\ IF loginOk
       THEN /\ pc' = "run_sweep_movies"
            /\ incremental' = inc
            /\ existing_data' = load_existing_data(catalog)
            /\ token' = TRUE
            /\ UNCHANGED <<todo, pending, todoManual>>
            /\ op' = "run_start"
       ELSE /\ Exit
            /\ op' = "run_login_failed"
    /\ mergeLog' = NoMerge
    /\ UNCHANGED <<fileVars, clock, sweepLog, gateVars, search, rank, applied, removedIds, tvLog>>

\* run(): movies = get_tmdb_with_translations('movie', max_movies, year)
RunSweepMovies(listing, count) ==
    /\ pc = "run_sweep_movies"
    /\ todo' = [todo EXCEPT
                  !.movies = get_tmdb_with_translations("movie", count, listing, scan, clock)]
    /\ pc' = "run_sweep_tv"
    /\ op' = "sweep"
    /\ mergeLog' = NoMerge
    /\ UNCHANGED <<fileVars, clock, incremental, existing_data, token, pending,
                   todoManual, sweepLog, gateVars, search, rank, applied, removedIds, tvLog, commands>>

\* run(): tv_shows = get_tmdb_with_translations('tv', ...), and the return
\* when there is nothing to scan
RunSweepTv(listing, count) ==
    /\ pc = "run_sweep_tv"
    /\ LET tv_shows == get_tmdb_with_translations("tv", count, listing, scan, clock)
       IN IF todo.movies = <<>> /\ tv_shows = <<>>
          THEN /\ Exit
               /\ op' = "run_return"
          ELSE /\ todo' = [todo EXCEPT !.tv = tv_shows]
               /\ pc' = AfterPc(todo')
               /\ op' = "sweep"
               /\ UNCHANGED <<incremental, existing_data, token, pending, todoManual>>
    /\ mergeLog' = NoMerge
    /\ UNCHANGED <<fileVars, clock, sweepLog, gateVars, search, rank, applied, removedIds, tvLog, commands>>

\* run(): process_movie of the next movie
RunMovie(files) ==
    /\ pc = "run_movies"
    /\ LET movie == Head(todo.movies)
           result == process_movie(movie, existing_data, incremental,
                                   IF token THEN files ELSE <<>>)
       IN IF IsResult(result)
          THEN /\ scan' = IF Truthy(movie.tmdb_id)
                          THEN mark_movie_scanned(scan, movie.tmdb_id, clock) ELSE scan
               /\ pending' = result
               /\ pc' = "run_merge_movie"
               /\ UNCHANGED todo
          ELSE /\ todo' = [todo EXCEPT !.movies = Tail(todo.movies)]
               /\ pc' = AfterPc(todo')
               /\ UNCHANGED <<scan, pending>>
    /\ op' = "process_movie"
    /\ mergeLog' = NoMerge
    /\ UNCHANGED <<catalog, manual, clock, incremental, existing_data, token,
                   todoManual, sweepLog, gateVars, search, rank, applied, removedIds, tvLog, commands>>

\* run(): update_main_database_with_manual_content_fixed(result, 'movie')
RunMergeMovie ==
    /\ pc = "run_merge_movie"
    /\ DoMerge(pending, "movie")
    /\ pending' = NoResult
    /\ todo' = [todo EXCEPT !.movies = Tail(todo.movies)]
    /\ pc' = AfterPc(todo')
    /\ op' = "merge_batch"
    /\ removedIds' = StillRemoved(pending)
    /\ UNCHANGED <<manual, scan, clock, incremental, token, todoManual, sweepLog,
                   gateVars, search, rank, applied, tvLog, commands>>

\* run(): process_tv_show of the next series
RunTv(files, has_cz) ==
    /\ pc = "run_tv"
    /\ LET tv_show == Head(todo.tv)
           r == process_tv_show(tv_show, existing_data, incremental,
                                IF token THEN files ELSE <<>>, has_cz)
       IN /\ scan' = IF r.marked
                     THEN mark_tv_show_scanned(scan, tv_show.tmdb_id, clock) ELSE scan
          /\ IF IsResult(r.result)
             THEN /\ pending' = r.result
                  /\ pc' = "run_merge_tv"
                  /\ UNCHANGED todo
             ELSE /\ todo' = [todo EXCEPT !.tv = Tail(todo.tv)]
                  /\ pc' = AfterPc(todo')
                  /\ UNCHANGED pending
    /\ op' = "process_tv_show"
    /\ mergeLog' = NoMerge
    /\ UNCHANGED <<catalog, manual, clock, incremental, existing_data, token,
                   todoManual, sweepLog, gateVars, search, rank, applied, removedIds, tvLog, commands>>

\* run(): update_main_database_with_manual_content_fixed(result, 'tv')
RunMergeTv ==
    /\ pc = "run_merge_tv"
    /\ DoMerge(pending, "tv")
    /\ pending' = NoResult
    /\ todo' = [todo EXCEPT !.tv = Tail(todo.tv)]
    /\ pc' = AfterPc(todo')
    /\ op' = "merge_batch"
    /\ removedIds' = StillRemoved(pending)
    /\ UNCHANGED <<manual, scan, clock, incremental, token, todoManual, sweepLog,
                   gateVars, search, rank, applied, tvLog, commands>>

ManualList(store) ==
    [i \in 1..Len(store.movies) |-> [kind |-> "movie", entry |-> store.movies[i]]]
    \o [i \in 1..Len(store.tv_shows) |-> [kind |-> "tv", entry |-> store.tv_shows[i]]]

\* run(): manual_content = load_manual_content()
RunManual ==
    /\ pc = "run_manual"
    /\ todoManual' = ManualList(manual)
    /\ pc' = IF todoManual' = <<>> THEN "run_final" ELSE "run_manual_merge"
    /\ op' = "load_manual"
    /\ mergeLog' = NoMerge
    /\ UNCHANGED <<fileVars, clock, incremental, existing_data, token, todo, pending,
                   sweepLog, gateVars, search, rank, applied, removedIds, tvLog, commands>>

\* run(): the re-merge of the next manual entry
RunManualMerge ==
    /\ pc = "run_manual_merge"
    /\ DoMerge(Head(todoManual).entry, Head(todoManual).kind)
    /\ todoManual' = Tail(todoManual)
    /\ pc' = IF todoManual' = <<>> THEN "run_final" ELSE "run_manual_merge"
    /\ op' = "merge_manual"
    /\ UNCHANGED <<manual, scan, clock, incremental, token, todo, pending, sweepLog,
                   gateVars, search, rank, applied, removedIds, tvLog, commands>>

\* run(): the final summary and return
RunFinal ==
    /\ pc = "run_final"
    /\ Exit
    /\ op' = "run_return"
    /\ mergeLog' = NoMerge
    /\ UNCHANGED <<fileVars, clock, sweepLog, gateVars, search, rank, applied, removedIds, tvLog, commands>>

\* main() with --add: login, add_content_manually up to the metadata lookup.
\* link says the "tmdb:ID,webshare:URL" form (add_content_with_tmdb_and_webshare),
\* whose ExternalId is text; ty is the Python type of the ExternalId
\* otherwise ("str" from a URL, "int" from a number or a name search)
AddStart(kind, ty, n, link, ok) ==
    /\ pc = "idle"
    /\ commands < MaxCommands
    /\ commands' = commands + 1
    /\ link => ty = "str"
    /\ IF ok
       THEN /\ pc' = "add_process"
            /\ token' = TRUE
            /\ pending' = [kind |-> kind, item |-> Meta(MkId(ty, n)), link |-> link]
            /\ UNCHANGED <<incremental, existing_data, todo, todoManual>>
            /\ op' = "add_start"
       ELSE /\ Exit
            /\ op' = "add_failed"
    /\ mergeLog' = NoMerge
    /\ UNCHANGED <<fileVars, clock, sweepLog, gateVars, search, rank, applied, removedIds, tvLog>>

\* add_content_manually / add_content_with_tmdb_and_webshare for a movie:
\* process_movie, or process_movie_with_specific_file_fixed for a link
AddProcessMovie(files, specific) ==
    /\ pc = "add_process"
    /\ pending.kind = "movie"
    /\ LET item == pending.item
           fs == IF token THEN files ELSE <<>>
           result == IF pending.link
                     THEN process_movie_with_specific_file_fixed(item, existing_data,
                                                                 incremental, specific, fs)
                     ELSE process_movie(item, existing_data, incremental, fs)
       IN IF IsResult(result)
          THEN /\ scan' = IF Truthy(item.tmdb_id)
                          THEN mark_movie_scanned(scan, item.tmdb_id, clock) ELSE scan
               /\ pending' = [kind |-> "movie", entry |-> result]
               /\ pc' = "add_store"
               /\ UNCHANGED <<incremental, existing_data, token, todo, todoManual>>
          ELSE /\ Exit
               /\ UNCHANGED scan
    /\ op' = "add_process"
    /\ mergeLog' = NoMerge
    /\ UNCHANGED <<catalog, manual, clock, sweepLog, gateVars, search, rank, applied, removedIds, tvLog, commands>>

\* add_content_manually / add_content_with_tmdb_and_webshare for a series:
\* process_tv_show, and process_tv_show_with_specific_file_fixed marks again
AddProcessTv(files, has_cz) ==
    /\ pc = "add_process"
    /\ pending.kind = "tv"
    /\ LET item == pending.item
           r == process_tv_show(item, existing_data, incremental,
                                IF token THEN files ELSE <<>>, has_cz)
           marked == /\ Truthy(item.tmdb_id)
                     /\ r.marked \/ (pending.link /\ IsResult(r.result))
       IN /\ scan' = IF marked
                     THEN mark_tv_show_scanned(scan, item.tmdb_id, clock) ELSE scan
          /\ IF IsResult(r.result)
             THEN /\ pending' = [kind |-> "tv", entry |-> r.result]
                  /\ pc' = "add_store"
                  /\ UNCHANGED <<incremental, existing_data, token, todo, todoManual>>
             ELSE Exit
    /\ op' = "add_process"
    /\ mergeLog' = NoMerge
    /\ UNCHANGED <<catalog, manual, clock, sweepLog, gateVars, search, rank, applied, removedIds, tvLog, commands>>

\* add_content_manually: save_manual_content and the merge into the catalog
AddStore ==
    /\ pc = "add_store"
    /\ manual' = StoreManual(manual, pending.entry, pending.kind)
    /\ MergeFile(pending.entry, pending.kind)
    /\ Exit
    /\ op' = "merge_add"
    /\ removedIds' = StillRemoved(pending.entry)
    /\ UNCHANGED <<scan, clock, sweepLog, gateVars, search, rank, applied, tvLog, commands>>

\* main() with --remove --tmdb-id n: remove_content
RemoveContent(n) ==
    /\ pc = "idle"
    /\ commands < MaxCommands
    /\ commands' = commands + 1
    /\ LET current_data == load_existing_data(catalog)
           movies_to_keep == KeepList(current_data.movies, n)
           tv_shows_to_keep == KeepList(current_data.tv_shows, n)
           removed == \/ Len(movies_to_keep) < Len(current_data.movies)
                      \/ Len(tv_shows_to_keep) < Len(current_data.tv_shows)
       IN /\ catalog' = IF removed
                        THEN save_data_immediately([movies |-> movies_to_keep,
                                                    tv_shows |-> tv_shows_to_keep])
                        ELSE catalog
          /\ removedIds' = IF removed THEN removedIds \cup {n} ELSE removedIds
    /\ mergeLog' = NoMerge
    /\ op' = "remove_content"
    /\ UNCHANGED <<manual, scan, clock, procVars, sweepLog, gateVars, search, rank, applied, tvLog>>

\* the wall clock advances by d between two commands (a command takes less
\* than one step of this clock)
Tick(d) ==
    /\ pc = "idle"
    /\ clock + d <= MaxTicks * MovieTTL
    /\ clock' = clock + d
    /\ op' = "tick"
    /\ mergeLog' = NoMerge
    /\ UNCHANGED <<fileVars, procVars, sweepLog, gateVars, search, rank, applied, removedIds, tvLog, commands>>

\* KeyboardInterrupt: main() exits
Interrupt ==
    /\ pc # "idle"
    /\ Exit
    /\ op' = "interrupt"
    /\ mergeLog' = NoMerge
    /\ UNCHANGED <<fileVars, clock, sweepLog, gateVars, search, rank, applied, removedIds, tvLog, commands>>

GateIdle ==
    /\ lock = 0
    /\ last_request_time = 0
    /\ tpc = <<>>
    /\ wake = <<>>
    /\ attempt = <<>>
    /\ sent = <<>>
    /\ search = NoSearch
    /\ rank = NoRank
    /\ applied = NoCall
    /\ removedIds = {}
    /\ tvLog = NoOrganize

Init ==
    /\ catalog = NoFile
    /\ manual = EmptyData
    /\ scan = EmptyScan
    /\ clock = 0
    /\ pc = "idle"
    /\ incremental = TRUE
    /\ existing_data = NoData
    /\ token = FALSE
    /\ todo = NoTodo
    /\ pending = NoResult
    /\ todoManual = <<>>
    /\ op = "init"
    /\ mergeLog = NoMerge
    /\ sweepLog = NoSweep
    /\ commands = 0
    /\ GateIdle

Next ==
    \/ \E loginOk \in BOOLEAN : RunStart(TRUE, loginOk)
    \/ \E listing \in Listings, count \in 1..MaxTmdb : RunSweepMovies(listing, count)
    \/ \E listing \in Listings, count \in 1..MaxTmdb : RunSweepTv(listing, count)
    \/ \E files \in FoundMovie : RunMovie(files)
    \/ RunMergeMovie
    \/ \E files \in FoundTv, has_cz \in BOOLEAN : RunTv(files, has_cz)
    \/ RunMergeTv
    \/ RunManual
    \/ RunManualMerge
    \/ RunFinal
    \/ \E kind \in Kinds, ty \in IdForms, n \in TmdbNums, link \in BOOLEAN, ok \in BOOLEAN :
          AddStart(kind, ty, n, link, ok)
    \/ \E files \in FoundMovie, specific \in Idents : AddProcessMovie(files, specific)
    \/ \E files \in FoundTv, has_cz \in BOOLEAN : AddProcessTv(files, has_cz)
    \/ AddStore
    \/ \E n \in TmdbNums : RemoveContent(n)
    \/ Tick(MovieTTL)
    \/ Interrupt

Spec == Init /\ [][Next]_vars

-----------------------------------------------------------------------------
(* SpecMerge: update_main_database_with_manual_content_fixed called on      *)
(* entries of every form, the ones without tmdb_id included                 *)

MaxMerges == 3

MergeIds == {NoId} \cup {MkId(ty, n) : ty \in IdForms, n \in TmdbNums}

MergeKeys == {generate_content_id(TmdbTitle(n), TmdbYear(n)) : n \in 1..2}

\* the seasons of a series with one file, the episode S01E01
OneFileSeasons(ident) ==
    organize_tv_episodes(<<[ident |-> ident, ep |-> TRUE, s |-> 1, e |-> 1,
                            matchEn |-> TRUE, matchCz |-> TRUE]>>, TRUE, <<>>)

MergeEntries(kind) ==
    IF kind = "movie"
    THEN [id : MergeKeys, tmdb_id : MergeIds, streams : FoundMovie \ {<<>>}]
    ELSE [id : MergeKeys, tmdb_id : MergeIds,
          seasons : {OneFileSeasons(i) : i \in Idents}]

\* one call of the merge on new_content
MergeCall(new_content, kind) ==
    /\ commands < MaxMerges
    /\ MergeFile(new_content, kind)
    /\ commands' = commands + 1
    /\ op' = "merge"
    /\ UNCHANGED <<manual, scan, clock, procVars, sweepLog, gateVars, search, rank, applied, removedIds, tvLog>>

NextMerge == \E kind \in Kinds : \E new_content \in MergeEntries(kind) :
                MergeCall(new_content, kind)

SpecMerge == Init /\ [][NextMerge]_vars

-----------------------------------------------------------------------------
(* SpecSave: the merge with the write of save_data_immediately in its       *)
(* steps, and the process killed between them                               *)

\* update_main_database_with_manual_content_fixed up to the backup copy:
\* current_data is ready to be written
\* the file as a reader sees it when open or json.load raises
Unreadable(file) ==
    [exists |-> file.exists, movies |-> file.movies, tv_shows |-> file.tv_shows,
     torn |-> TRUE]

SaveStart(new_content, kind, readable) ==
    /\ pc = "idle"
    /\ commands < MaxMerges
    /\ commands' = commands + 1
    /\ pending' = update_main_database_with_manual_content_fixed(
                     IF readable THEN catalog ELSE Unreadable(catalog), new_content, kind)
    /\ pc' = "save_open"
    /\ op' = "save_start"
    /\ UNCHANGED <<fileVars, clock, incremental, existing_data, token, todo, todoManual,
                   mergeLog, sweepLog, gateVars, search, rank, applied, removedIds, tvLog>>

\* open(self.output_file, 'w'): the file is truncated
SaveOpen ==
    /\ pc = "save_open"
    /\ catalog' = TornFile
    /\ pc' = "save_dump"
    /\ op' = "save_open"
    /\ UNCHANGED <<manual, scan, clock, incremental, existing_data, token, todo, pending,
                   todoManual, mergeLog, sweepLog, gateVars, search, rank, applied, removedIds, tvLog, commands>>

\* json.dump has written everything and the file is closed
SaveDump ==
    /\ pc = "save_dump"
    /\ catalog' = save_data_immediately(pending)
    /\ pc' = "idle"
    /\ pending' = NoResult
    /\ op' = "save_done"
    /\ UNCHANGED <<manual, scan, clock, incremental, existing_data, token, todo,
                   todoManual, mergeLog, sweepLog, gateVars, search, rank, applied, removedIds, tvLog, commands>>

\* the process is interrupted or killed inside save_data_immediately
SaveCrash ==
    /\ pc \in {"save_open", "save_dump"}
    /\ Exit
    /\ op' = "save_crash"
    /\ UNCHANGED <<fileVars, clock, mergeLog, sweepLog, gateVars, search, rank, applied, removedIds, tvLog, commands>>

NextSave ==
    \/ \E kind \in Kinds, readable \in BOOLEAN : \E new_content \in MergeEntries(kind) :
          SaveStart(new_content, kind, readable)
    \/ SaveOpen
    \/ SaveDump
    \/ SaveCrash

SpecSave == Init /\ [][NextSave]_vars

-----------------------------------------------------------------------------
(* SpecOrganize: organize_tv_episodes called on the files of a search, with *)
(* and without a localized title, on no seasons and on seasons read from    *)
(* the catalog file                                                         *)

ExistingSeasons == {<<>>} \cup {JsonSeasons(OneFileSeasons(i), <<>>) : i \in Idents}

OrganizeCall(files, has_cz, existing_seasons) ==
    /\ tvLog' = [some |-> TRUE, files |-> files, has_cz |-> has_cz,
                 existing_seasons |-> existing_seasons,
                 seasons |-> organize_tv_episodes(files, has_cz, existing_seasons)]
    /\ UNCHANGED <<progVars, search, rank, applied>>

NextOrganize ==
    \E files \in FoundTv, has_cz \in BOOLEAN, existing_seasons \in ExistingSeasons :
        OrganizeCall(files, has_cz, existing_seasons)

SpecOrganize == Init /\ [][NextOrganize]_vars

-----------------------------------------------------------------------------
(* SpecSweep: the scan cache and the batch sweep, with a clock in seconds   *)
(* that steps onto both sides of the two time limits                        *)

MaxSweepTicks == 4

SweepSteps == {1, TvTTL - 1, MovieTTL - 1}

\* process_movie / process_tv_show record the scan of tmdb_id n
SweepMark(kind, n) ==
    /\ scan' = IF kind = "movie" THEN mark_movie_scanned(scan, IntId(n), clock)
                                 ELSE mark_tv_show_scanned(scan, IntId(n), clock)
    /\ sweepLog' = NoSweep
    /\ op' = "mark"
    /\ UNCHANGED <<catalog, manual, clock, procVars, mergeLog, gateVars, search, rank, applied, removedIds, tvLog, commands>>

\* get_tmdb_with_translations over a TMDB listing
Sweep(kind, listing, count) ==
    /\ sweepLog' = [some |-> TRUE, kind |-> kind, listing |-> listing, count |-> count,
                    result |-> get_tmdb_with_translations(kind, count, listing, scan, clock)]
    /\ op' = "sweep"
    /\ UNCHANGED <<fileVars, clock, procVars, mergeLog, gateVars, search, rank, applied, removedIds, tvLog, commands>>

SweepTick(d) ==
    /\ commands < MaxSweepTicks
    /\ clock' = clock + d
    /\ commands' = commands + 1
    /\ sweepLog' = NoSweep
    /\ op' = "tick"
    /\ UNCHANGED <<fileVars, procVars, mergeLog, gateVars, search, rank, applied, removedIds, tvLog>>

NextSweep ==
    \/ \E kind \in Kinds, n \in TmdbNums : SweepMark(kind, n)
    \/ \E kind \in Kinds, listing \in Listings, count \in 1..MaxTmdb :
          Sweep(kind, listing, count)
    \/ \E d \in SweepSteps : SweepTick(d)

SpecSweep == Init /\ [][NextSweep]_vars

-----------------------------------------------------------------------------
(* SpecRL: threads of one TMDBFirstOrganizer calling login() and the         *)
(* rate-limited requests; the clock is in milliseconds                      *)

MaxThreads == 2
MaxRLTicks == 6
MaxSends == 4
Quantum == 500

Threads == 1..MaxThreads

min_request_interval == 1000
max_retries == 3
SaltSleep == 2000
LoginSleep == 3000

\* what SpecRL leaves alone
restVars == <<fileVars, pc, incremental, existing_data, todo, pending, todoManual,
              op, mergeLog, sweepLog, commands, search, rank, applied, removedIds, tvLog>>

Limited == {"search", "file_info"}
Responses == {"ok", "bad", "exc"}

\* thread t moves to at; resp is the response it received last and ret what
\* its last call of login() returned
At(t, at, req) == [tpc EXCEPT ![t].at = at, ![t].req = req]

Got(pcs, t, resp) == [pcs EXCEPT ![t].resp = resp]

Returned(pcs, t, ret) == [pcs EXCEPT ![t].ret = ret]

Sent(kind) == Append(sent, [time |-> clock, kind |-> kind])

\* _rate_limit, entered: the lock is taken and the sleep computed
RateLimitEnter(t, req) ==
    /\ tpc[t].at = "idle"
    /\ token
    /\ lock = 0
    /\ lock' = t
    /\ LET current_time == clock
           elapsed == current_time - last_request_time
       IN wake' = [wake EXCEPT ![t] =
                     IF elapsed < min_request_interval
                     THEN current_time + (min_request_interval - elapsed)
                     ELSE current_time]
    /\ tpc' = At(t, "limit", req)
    /\ UNCHANGED <<last_request_time, attempt, sent, token, clock, restVars>>

\* _rate_limit, left: the sleep is over, the time is stored and the lock
\* released
RateLimitExit(t) ==
    /\ tpc[t].at = "limit"
    /\ clock >= wake[t]
    /\ last_request_time' = clock
    /\ lock' = 0
    /\ tpc' = At(t, "send", tpc[t].req)
    /\ UNCHANGED <<wake, attempt, sent, token, clock, restVars>>

\* session.post of the search or file_info request
SendLimited(t) ==
    /\ tpc[t].at = "send"
    /\ sent' = Sent(tpc[t].req)
    /\ tpc' = At(t, "idle", "none")
    /\ UNCHANGED <<lock, last_request_time, wake, attempt, token, clock, restVars>>

\* login(), entered
LoginStart(t) ==
    /\ tpc[t].at = "idle"
    /\ attempt' = [attempt EXCEPT ![t] = 0]
    /\ tpc' = Returned(Got(At(t, "salt", "salt"), t, "none"), t, "none")
    /\ UNCHANGED <<lock, last_request_time, wake, sent, token, clock, restVars>>

\* a login() that sleeps and goes on after its third failed attempt too
LoginFailed_Four(t, resp, sleep) ==
    IF attempt[t] < max_retries
    THEN /\ tpc' = Got(At(t, "backoff", "none"), t, resp)
         /\ wake' = [wake EXCEPT ![t] = clock + sleep]
    ELSE /\ tpc' = Returned(Got(At(t, "idle", "none"), t, resp), t, "false")
         /\ UNCHANGED wake

\* what follows a failed attempt: sleep and continue, or return False
LoginFailed(t, resp, sleep) ==
    IF attempt[t] < max_retries - 1
    THEN /\ tpc' = Got(At(t, "backoff", "none"), t, resp)
         /\ wake' = [wake EXCEPT ![t] = clock + sleep]
    ELSE /\ tpc' = Returned(Got(At(t, "idle", "none"), t, resp), t, "false")
         /\ UNCHANGED wake

\* session.post of salt/ and its response
SaltPost(t, resp) ==
    /\ tpc[t].at = "salt"
    /\ sent' = Sent("salt")
    /\ IF resp = "ok" THEN tpc' = Got(At(t, "login", "login"), t, resp) /\ UNCHANGED wake
       ELSE IF resp = "bad" THEN LoginFailed(t, resp, SaltSleep)
       ELSE LoginFailed(t, resp, LoginSleep)
    /\ UNCHANGED <<lock, last_request_time, attempt, token, clock, restVars>>

\* session.post of login/ and its response
LoginPost(t, resp) ==
    /\ tpc[t].at = "login"
    /\ sent' = Sent("login")
    /\ IF resp = "ok"
       THEN /\ tpc' = Returned(Got(At(t, "idle", "none"), t, resp), t, "true")
            /\ token' = TRUE
            /\ UNCHANGED wake
       ELSE LoginFailed(t, resp, LoginSleep) /\ UNCHANGED token
    /\ UNCHANGED <<lock, last_request_time, attempt, clock, restVars>>

\* the sleep after a failed attempt is over: the next attempt
LoginRetry(t) ==
    /\ tpc[t].at = "backoff"
    /\ clock >= wake[t]
    /\ attempt' = [attempt EXCEPT ![t] = attempt[t] + 1]
    /\ tpc' = At(t, "salt", "salt")
    /\ UNCHANGED <<lock, last_request_time, wake, sent, token, clock, restVars>>

\* the clock advances, ticks times at most
RLTick(ticks) ==
    /\ clock + Quantum <= min_request_interval + ticks * Quantum
    /\ clock' = clock + Quantum
    /\ UNCHANGED <<gateVars, token, restVars>>

InitRL ==
    /\ catalog = NoFile
    /\ manual = EmptyData
    /\ scan = EmptyScan
    /\ clock = min_request_interval
    /\ pc = "idle"
    /\ incremental = TRUE
    /\ existing_data = NoData
    /\ token = FALSE
    /\ todo = NoTodo
    /\ pending = NoResult
    /\ todoManual = <<>>
    /\ op = "init"
    /\ mergeLog = NoMerge
    /\ sweepLog = NoSweep
    /\ commands = 0
    /\ lock = 0
    /\ last_request_time = 0
    /\ tpc = [t \in Threads |-> [at |-> "idle", req |-> "none", resp |-> "none",
                                  ret |-> "none"]]
    /\ wake = [t \in Threads |-> 0]
    /\ attempt = [t \in Threads |-> 0]
    /\ sent = <<>>
    /\ search = NoSearch
    /\ rank = NoRank
    /\ applied = NoCall
    /\ removedIds = {}
    /\ tvLog = NoOrganize

NextRL ==
    \/ \E t \in Threads, req \in Limited : RateLimitEnter(t, req)
    \/ \E t \in Threads : RateLimitExit(t)
    \/ \E t \in Threads : Len(sent) < MaxSends /\ SendLimited(t)
    \/ \E t \in Threads : LoginStart(t)
    \/ \E t \in Threads, resp \in Responses : Len(sent) < MaxSends /\ SaltPost(t, resp)
    \/ \E t \in Threads, resp \in Responses : Len(sent) < MaxSends /\ LoginPost(t, resp)
    \/ \E t \in Threads : LoginRetry(t)
    \/ RLTick(MaxRLTicks)

SpecRL == InitRL /\ [][NextRL]_vars

-----------------------------------------------------------------------------
(* SpecLogin: calls of login() by one thread, with time enough for the      *)
(* sleeps of three attempts                                                 *)

MaxLoginTicks == 12
MaxLoginSends == 6

NextLogin ==
    \/ LoginStart(1)
    \/ \E resp \in Responses : Len(sent) < MaxLoginSends /\ SaltPost(1, resp)
    \/ \E resp \in Responses : Len(sent) < MaxLoginSends /\ LoginPost(1, resp)
    \/ LoginRetry(1)
    \/ RLTick(MaxLoginTicks)

SpecLogin == InitRL /\ [][NextLogin]_vars

-----------------------------------------------------------------------------
(* SpecSearch: search_webshare_comprehensive and the pages of               *)
(* search_webshare_paginated; files are counted, a page is described by its *)
(* outcome and the number of new video files in it                          *)

MaxVariations == 2

page_limit == 100
max_offset == 1000
low_yield == 10
movie_batch_max == 100
tv_batch_max == 200
comprehensive_max_results == 300

\* the number of new video files a page can hold: none, just below the
\* low-yield threshold, the threshold, a full page
FoundValues == {0, low_yield - 1, low_yield, page_limit}

\* what a page request can end in: a good page, a transport exception, a
\* status other than 200, a service status other than OK, a body that does
\* not parse
PageOutcomes == {"ok", "exception", "http", "service", "malformed"}

batch_max(content_type) == IF content_type = "movie" THEN movie_batch_max ELSE tv_batch_max

Min(a, b) == IF a < b THEN a ELSE b

\* a loop that takes a failed page for an empty good one
PageFailed_Never(outcome) == FALSE

\* the page failed: the loop is left
PageFailed(outcome) == outcome # "ok"

\* a loop that never stops on a page with few new files
LowYield_Never(found_in_batch) == FALSE

\* the page held too few new video files: the loop is left
LowYield(found_in_batch) == found_in_batch < low_yield

\* the while condition of search_webshare_paginated
MorePages(files, offset, max_results) == files < max_results /\ offset < max_offset

\* search_webshare_paginated after the response to the request at s.offset:
\* the position and the locals
AfterPage(s, outcome, found, max_results) ==
    LET requests == Append(s.requests, [offset |-> s.offset, outcome |-> outcome,
                                        found |-> IF outcome = "ok" THEN found ELSE 0])
    IN IF PageFailed(outcome)
       THEN [s EXCEPT !.requests = requests, !.pc = "batch"]
       ELSE IF s.files + found >= max_results
       THEN [s EXCEPT !.requests = requests, !.files = max_results, !.pc = "batch"]
       ELSE IF LowYield(found)
       THEN [s EXCEPT !.requests = requests, !.files = s.files + found, !.pc = "batch"]
       ELSE [s EXCEPT !.requests = requests, !.files = s.files + found,
                      !.offset = s.offset + page_limit,
                      !.pc = IF MorePages(s.files + found, s.offset + page_limit, max_results)
                             THEN "page" ELSE "batch"]

\* search_webshare_paginated is entered for variation v
StartQuery(s, v) ==
    [s EXCEPT !.variation = v, !.offset = 0, !.files = 0, !.requests = <<>>, !.pc = "page"]

\* search_webshare_comprehensive is called with a token
SearchStart(content_type, variations) ==
    /\ search.pc \in {"idle", "returned"}
    /\ search' = StartQuery([NoSearch EXCEPT !.content_type = content_type,
                                             !.variations = variations], 1)
    /\ UNCHANGED <<progVars, rank, applied, tvLog>>

\* one page: the request and its response
PageRequest(outcome, found) ==
    /\ search.pc = "page"
    /\ search' = AfterPage(search, outcome, found, batch_max(search.content_type))
    /\ UNCHANGED <<progVars, rank, applied, tvLog>>

\* search_webshare_comprehensive takes the files of a query, kept of them
\* new and matching the title, and goes on to the next variation
BatchDone(kept) ==
    /\ search.pc = "batch"
    /\ kept <= search.files
    /\ LET total == search.total + kept
       IN search' =
            IF total >= comprehensive_max_results
            THEN [search EXCEPT !.total = total, !.pc = "returned"]
            ELSE IF search.variation < search.variations
            THEN [StartQuery(search, search.variation + 1) EXCEPT !.total = total]
            ELSE [search EXCEPT !.total = total, !.pc = "returned"]
    /\ UNCHANGED <<progVars, rank, applied, tvLog>>

NextSearch ==
    \/ \E content_type \in Kinds, variations \in 1..MaxVariations :
          SearchStart(content_type, variations)
    \/ \E outcome \in PageOutcomes, found \in FoundValues : PageRequest(outcome, found)
    \/ \E kept \in {0, search.files} : BatchDone(kept)

SpecSearch == Init /\ [][NextSearch]_vars

-----------------------------------------------------------------------------
(* SpecRank: the add-on's rank_streams and get_autoplay_stream              *)
(* (src/plugin.video.mila/mila.py) called once on settings and streams      *)
(* drawn from bounded sets.  A stream is described by its 'quality' and     *)
(* 'languages' fields, its size in bytes and what the patterns of           *)
(* get_metadata_from_api find in its file name.  Positions in a list are    *)
(* counted from 1; choice 0 stands for None.                                *)

MaxStreams == 2
MiB == 1048576
acceptance_floor == 50

OrDefault(value, default) == IF value = "" THEN default ELSE value

quality_values(q) ==
    CASE q = "Unknown" -> 1
      [] q = "480p" -> 2
      [] q = "720p" -> 3
      [] q = "1080p" -> 4
      [] q = "4K" -> 5
      [] q = "4K HDR" -> 6
      [] OTHER -> 0

QualityValue(q, default) == IF quality_values(q) = 0 THEN default ELSE quality_values(q)

\* info['quality'] as its words: ' HDR' is appended when the name has HDR
get_metadata_from_api(stream) ==
    [quality |-> IF stream.name_hdr THEN <<stream.quality, "HDR">> ELSE <<stream.quality>>,
     audio_channels |-> stream.audio_channels,
     audio_codec |-> stream.audio_codec,
     languages |-> stream.languages,
     source |-> stream.source,
     hdr |-> stream.name_hdr,
     size_mb |-> stream.size \div MiB]

Abs(n) == IF n < 0 THEN -n ELSE n

quality_score_Flat(quality_value, max_quality_value, target_quality_value) == 60

quality_score(quality_value, max_quality_value, target_quality_value) ==
    LET diff == Abs(quality_value - target_quality_value)
    IN  IF quality_value <= max_quality_value
        THEN CASE diff = 0 -> 100
               [] diff = 1 -> 80
               [] diff = 2 -> 60
               [] OTHER -> 40 - (diff * 5)
        ELSE -30

language_score_Weak(languages, preferred_lang) ==
    IF preferred_lang # "Any" /\ preferred_lang \in languages THEN 50 ELSE 0

language_score(languages, preferred_lang) ==
    IF preferred_lang # "Any"
    THEN IF preferred_lang \in languages THEN 150
         ELSE IF languages # {}
              THEN IF "Czech" \in languages \/ "Slovak" \in languages THEN 50 ELSE 20
              ELSE 0
    ELSE IF languages # {} THEN 30 ELSE 0

hdr_score(hdr, prefer_hdr) ==
    IF hdr /\ prefer_hdr THEN 25 ELSE IF hdr /\ ~prefer_hdr THEN -10 ELSE 0

audio_score(info, min_audio_channels) ==
    IF info.audio_channels # ""
    THEN IF info.audio_channels \in {"7.1", "5.1"} THEN 30
         ELSE IF info.audio_channels = min_audio_channels THEN 15
         ELSE IF info.audio_codec \in {"DTS-HD MA", "TrueHD/ATMOS"} THEN 20
         ELSE 0
    ELSE 0

source_score(source) ==
    CASE source = "BluRay" -> 20
      [] source = "WEB" -> 15
      [] source = "HDTV" -> 10
      [] OTHER -> 0

\* the sizes drawn are multiples of 50 MiB, so size_mb / 50 is whole
size_score(size_mb) == IF size_mb > 100 THEN Min(20, size_mb \div 50) ELSE 0

Score(stream, settings) ==
    LET info == get_metadata_from_api(stream)
        max_quality_value == QualityValue(OrDefault(settings.max_quality, "4K"), 5)
        target_quality_value == QualityValue(OrDefault(settings.autoplay_resolution, "1080p"), 4)
        quality_value == QualityValue(Head(info.quality), 1)
    IN  quality_score(quality_value, max_quality_value, target_quality_value)
        + language_score(info.languages, OrDefault(settings.preferred_language, "English"))
        + hdr_score(info.hdr, settings.prefer_hdr)
        + audio_score(info, OrDefault(settings.min_audio_channels, "2.0"))
        + source_score(info.source)
        + size_score(info.size_mb)

\* list.sort(key=score, reverse=True): stable, equal scores keep their order
RECURSIVE SortByScore(_)
SortByScore(items) ==
    IF items = <<>> THEN <<>>
    ELSE LET last == items[Len(items)]
             rest == SortByScore(SubSeq(items, 1, Len(items) - 1))
             k == Cardinality({i \in DOMAIN rest : rest[i].score >= last.score})
         IN  SubSeq(rest, 1, k) \o <<last>> \o SubSeq(rest, k + 1, Len(rest))

rank_streams(streams, settings) ==
    SortByScore([i \in DOMAIN streams |->
        [index |-> i,
         score |-> Score(streams[i], settings),
         info |-> get_metadata_from_api(streams[i])]])

Accepts_Never(score) == FALSE

Accepts(score) == score >= acceptance_floor

\* get_autoplay_stream: the position returned and the return statement taken
autoplay_return(streams, settings) ==
    IF streams = <<>> THEN [choice |-> 0, via |-> "empty"]
    ELSE LET ranked == rank_streams(streams, settings)
             preferred_lang == OrDefault(settings.preferred_language, "English")
             hits == {i \in DOMAIN ranked : preferred_lang \in ranked[i].info.languages}
         IN  IF ranked # <<>> /\ Accepts(ranked[1].score)
             THEN [choice |-> ranked[1].index, via |-> "top"]
             ELSE IF preferred_lang # "Any" /\ hits # {}
                  THEN [choice |-> ranked[CHOOSE i \in hits : \A j \in hits : i <= j].index,
                        via |-> "language"]
                  ELSE [choice |-> 1, via |-> "first"]

get_autoplay_stream(streams, settings) == autoplay_return(streams, settings).choice

AddonSettings ==
    [preferred_language : {"", "Czech", "Any"},
     max_quality : {"", "480p", "1080p", "4K HDR"},
     prefer_hdr : BOOLEAN,
     min_audio_channels : {""},
     autoplay_resolution : {"", "480p", "720p", "4K"}]

\* what the streams of one call have in common: they differ in quality,
\* languages and size
StreamBases ==
    { [name_hdr |-> FALSE, audio_channels |-> "", audio_codec |-> "", source |-> ""],
      [name_hdr |-> TRUE, audio_channels |-> "", audio_codec |-> "", source |-> ""],
      [name_hdr |-> TRUE, audio_channels |-> "5.1", audio_codec |-> "DTS", source |-> "BluRay"] }

StreamQualities == {"Unknown", "480p", "720p", "1080p", "4K"}
StreamLanguages == {{}, {"English"}, {"Czech"}}
StreamSizes == {0, 150 * MiB, 2000 * MiB}

MkStream(base, quality, languages, size) ==
    [quality |-> quality, languages |-> languages, name_hdr |-> base.name_hdr,
     audio_channels |-> base.audio_channels, audio_codec |-> base.audio_codec,
     source |-> base.source, size |-> size]

StreamLists ==
    UNION { { [i \in 1..n |-> MkStream(base, f[i][1], f[i][2], f[i][3])] :
                f \in [1..n -> StreamQualities \X StreamLanguages \X StreamSizes] } :
            n \in 0..MaxStreams, base \in StreamBases }

RankInput(settings, streams) ==
    [some |-> FALSE, call |-> "none", settings |-> settings, streams |-> streams,
     ranked |-> <<>>, choice |-> 0, via |-> "none"]

InitRank ==
    /\ catalog = NoFile
    /\ manual = EmptyData
    /\ scan = EmptyScan
    /\ clock = 0
    /\ pc = "idle"
    /\ incremental = TRUE
    /\ existing_data = NoData
    /\ token = FALSE
    /\ todo = NoTodo
    /\ pending = NoResult
    /\ todoManual = <<>>
    /\ op = "init"
    /\ mergeLog = NoMerge
    /\ sweepLog = NoSweep
    /\ commands = 0
    /\ lock = 0
    /\ last_request_time = 0
    /\ tpc = <<>>
    /\ wake = <<>>
    /\ attempt = <<>>
    /\ sent = <<>>
    /\ search = NoSearch
    /\ tvLog = NoOrganize
    /\ applied = NoCall
    /\ removedIds = {}
    /\ \E settings \in AddonSettings, streams \in StreamLists :
          rank = RankInput(settings, streams)

RankCall ==
    /\ ~rank.some
    /\ rank' = [rank EXCEPT !.some = TRUE, !.call = "rank_streams",
                            !.ranked = rank_streams(rank.streams, rank.settings)]
    /\ UNCHANGED <<progVars, search, applied, tvLog>>

AutoplayCall ==
    /\ ~rank.some
    /\ rank' = [rank EXCEPT !.some = TRUE, !.call = "get_autoplay_stream",
                            !.ranked = IF rank.streams = <<>> THEN <<>>
                                       ELSE rank_streams(rank.streams, rank.settings),
                            !.choice = get_autoplay_stream(rank.streams, rank.settings),
                            !.via = autoplay_return(rank.streams, rank.settings).via]
    /\ UNCHANGED <<progVars, search, applied, tvLog>>

NextRank ==
    \/ RankCall
    \/ AutoplayCall

SpecRank == InitRank /\ [][NextRank]_vars

-----------------------------------------------------------------------------
(* SpecKey: generate_content_id applied to the titles of up to MaxTitleLen   *)
(* characters, with and without a year                                      *)

MaxTitleLen == 3

Titles == UNION {[1..n -> Chars] : n \in 0..MaxTitleLen}
Years == {<<>>, <<"1">>}

KeyInput(title, year) == [fn |-> "input", title |-> title, year |-> year]

InitKey ==
    /\ catalog = NoFile
    /\ manual = EmptyData
    /\ scan = EmptyScan
    /\ clock = 0
    /\ pc = "idle"
    /\ incremental = TRUE
    /\ existing_data = NoData
    /\ token = FALSE
    /\ todo = NoTodo
    /\ pending = NoResult
    /\ todoManual = <<>>
    /\ op = "init"
    /\ mergeLog = NoMerge
    /\ sweepLog = NoSweep
    /\ commands = 0
    /\ lock = 0
    /\ last_request_time = 0
    /\ tpc = <<>>
    /\ wake = <<>>
    /\ attempt = <<>>
    /\ sent = <<>>
    /\ search = NoSearch
    /\ rank = NoRank
    /\ tvLog = NoOrganize
    /\ removedIds = {}
    /\ \E title \in Titles, year \in Years : applied = KeyInput(title, year)

KeyCall ==
    /\ applied.fn = "input"
    /\ applied' = [fn |-> "generate_content_id", title |-> applied.title,
                   year |-> applied.year,
                   key |-> generate_content_id(applied.title, applied.year)]
    /\ UNCHANGED <<progVars, search, rank, tvLog>>

NextKey == KeyCall

SpecKey == InitKey /\ [][NextKey]_vars

-----------------------------------------------------------------------------
(* SpecPages: search_webshare_paginated file by file.  A hit is its ident   *)
(* (NoIdent when the file element has none) and whether its name is a       *)
(* video name; a new ident is the next unused number, a repeated one any    *)
(* ident seen before, on this page or an earlier one.                       *)

MaxPageHits == 12
SmallMaxResults == 3
MidMaxResults == 25
NoIdent == 0

SeenBefore_Never(ident, seen_files) == FALSE

SeenBefore(ident, seen_files) == ident \in seen_files

PagedLoop(files, offset, max_results) ==
    IF Len(files) < max_results /\ offset < max_offset THEN "request" ELSE "done"

PagedStart(max_results, has_token) ==
    /\ applied = NoCall
    /\ applied' = [fn |-> "search_webshare_paginated", max_results |-> max_results,
                   pc |-> IF has_token THEN PagedLoop(<<>>, 0, max_results) ELSE "done",
                   files |-> <<>>, seen_files |-> {}, offset |-> 0,
                   found_in_batch |-> 0, hits |-> 0]
    /\ UNCHANGED <<progVars, search, rank, tvLog>>

\* the request of one page: any failure breaks out of the loop
PagedRequest(ok) ==
    /\ applied.fn = "search_webshare_paginated"
    /\ applied.pc = "request"
    /\ applied' = [applied EXCEPT !.pc = IF ok THEN "page" ELSE "done",
                                  !.found_in_batch = 0, !.hits = 0]
    /\ UNCHANGED <<progVars, search, rank, tvLog>>

\* one file element of the page
PagedHit(ident, video) ==
    /\ applied.fn = "search_webshare_paginated"
    /\ applied.pc = "page"
    /\ applied.hits < MaxPageHits
    /\ applied' =
          IF SeenBefore(ident, applied.seen_files) \/ ~video
          THEN [applied EXCEPT !.hits = @ + 1]
          ELSE [applied EXCEPT !.hits = @ + 1,
                               !.files = Append(@, ident),
                               !.seen_files = @ \cup {ident},
                               !.found_in_batch = @ + 1,
                               !.pc = IF Len(applied.files) + 1 >= applied.max_results
                                      THEN "done" ELSE "page"]
    /\ UNCHANGED <<progVars, search, rank, tvLog>>

\* the end of the page
PagedEnd ==
    /\ applied.fn = "search_webshare_paginated"
    /\ applied.pc = "page"
    /\ applied' =
          IF applied.found_in_batch < low_yield
          THEN [applied EXCEPT !.pc = "done"]
          ELSE [applied EXCEPT !.offset = @ + page_limit,
                               !.pc = PagedLoop(applied.files, applied.offset + page_limit,
                                                applied.max_results)]
    /\ UNCHANGED <<progVars, search, rank, tvLog>>

\* the idents a page can hold next: one seen before, a new one, or none
HitIdents ==
    IF applied.fn # "search_webshare_paginated" THEN {}
    ELSE {NoIdent} \cup (applied.seen_files \ {NoIdent})
             \cup {Cardinality(applied.seen_files \ {NoIdent}) + 1}

NextPages ==
    \/ \E max_results \in {SmallMaxResults, MidMaxResults}, has_token \in BOOLEAN :
          PagedStart(max_results, has_token)
    \/ \E ok \in BOOLEAN : PagedRequest(ok)
    \/ \E ident \in HitIdents, video \in BOOLEAN : PagedHit(ident, video)
    \/ PagedEnd

SpecPages == Init /\ [][NextPages]_vars

-----------------------------------------------------------------------------
(* SpecFilter: filename_contains_title and the filter of find_movie_files   *)
(* applied to one file name.  The inputs are the short texts over a few     *)
(* characters (a letter, the separators, a digit, an opening parenthesis)   *)
(* and some titles and file names written out.                              *)

MaxFilterTitle == 2
MaxFileName == 3

TitleChars == {"a", " ", ".", "("}
NameChars == {"a", "b", " ", ".", "1"}

TheMatrix == <<"T", "h", "e", " ", "M", "a", "t", "r", "i", "x">>
MatrixRevisited ==
    TheMatrix \o <<" ", "R", "e", "v", "i", "s", "i", "t", "e", "d">>
        \o <<" ", "D", "o", "c", "u", "m", "e", "n", "t", "a", "r", "y">>
        \o <<" ", "1", "9", "9", "9", ".", "m", "k", "v">>
MatrixFile ==
    <<"T", "h", "e", ".", "M", "a", "t", "r", "i", "x", ".", "1", "9", "9", "9">>
        \o <<".", "1", "0", "8", "0", "p", ".", "m", "k", "v">>

FilterInputs ==
    [title : UNION {[1..n -> TitleChars] : n \in 0..MaxFilterTitle},
     title_cz : {<<>>, <<"b">>},
     name : UNION {[1..n -> NameChars] : n \in 0..MaxFileName},
     year : {<<>>, <<"1">>},
     strict : BOOLEAN]
    \cup [title : {TheMatrix, The}, title_cz : {<<>>}, name : {MatrixRevisited, MatrixFile},
          year : {<<>>, <<"1", "9", "9", "9">>, <<"2", "0", "0", "3">>}, strict : BOOLEAN]

FilterInput(in) ==
    [fn |-> "input", title |-> in.title, title_cz |-> in.title_cz, name |-> in.name,
     year |-> in.year, strict |-> in.strict, raised |-> "none", value |-> FALSE,
     outcome |-> "none"]

InitFilter ==
    /\ catalog = NoFile
    /\ manual = EmptyData
    /\ scan = EmptyScan
    /\ clock = 0
    /\ pc = "idle"
    /\ incremental = TRUE
    /\ existing_data = NoData
    /\ token = FALSE
    /\ todo = NoTodo
    /\ pending = NoResult
    /\ todoManual = <<>>
    /\ op = "init"
    /\ mergeLog = NoMerge
    /\ sweepLog = NoSweep
    /\ commands = 0
    /\ lock = 0
    /\ last_request_time = 0
    /\ tpc = <<>>
    /\ wake = <<>>
    /\ attempt = <<>>
    /\ sent = <<>>
    /\ search = NoSearch
    /\ rank = NoRank
    /\ tvLog = NoOrganize
    /\ removedIds = {}
    /\ \E in \in FilterInputs : applied = FilterInput(in)

\* filename_contains_title(name, title, year, strict)
ContainsCall ==
    /\ applied.fn = "input"
    /\ LET r == filename_contains_title(applied.name, applied.title, applied.year,
                                        applied.strict)
       IN  applied' = [applied EXCEPT !.fn = "filename_contains_title",
                                      !.raised = r.raised, !.value = r.value]
    /\ UNCHANGED <<progVars, search, rank, tvLog>>

\* find_movie_files: the filter loop on one file found
FilterCall ==
    /\ applied.fn = "input"
    /\ LET r == FilterFile(applied.name, applied.title, applied.title_cz, applied.year)
       IN  applied' = [applied EXCEPT !.fn = "find_movie_files",
                                      !.raised = IF r \in {"keep", "drop"} THEN "none" ELSE r,
                                      !.value = (r = "keep"),
                                      !.outcome = r]
    /\ UNCHANGED <<progVars, search, rank, tvLog>>

NextFilter ==
    \/ ContainsCall
    \/ FilterCall

SpecFilter == InitFilter /\ [][NextFilter]_vars

-----------------------------------------------------------------------------
(* Properties of the command-line program (Spec) *)

\* the idents the catalog file stores for the movies with ExternalId n
StoredIdents(file, n) ==
    UNION {Range(file.movies[i].streams) :
             i \in {j \in 1..Len(file.movies) :
                      Truthy(file.movies[j].tmdb_id) /\ Str(file.movies[j].tmdb_id) = n}}

\* the ExternalIds (as text) of a list of entries
StoredIds(list) ==
    {Str(list[i].tmdb_id) : i \in {j \in 1..Len(list) : Truthy(list[j].tmdb_id)}}

\* C1: a merge of a movie entry whose tmdb_id equals that of a catalog entry
\* leaves that catalog entry with every ident it held before and every ident
\* of the new entry
C1_MergeIsUnion ==
    (mergeLog.some /\ mergeLog.kind = "movie" /\ mergeLog.matched)
        => (Range(mergeLog.before) \cup Range(mergeLog.entry.streams))
              \subseteq Range(mergeLog.after)

\* C2: no step other than an explicit removal takes an ident away from the
\* idents the catalog stores for a movie
C2_IdentsNeverLost ==
    [][op' # "remove_content"
         => \A n \in TmdbNums : StoredIdents(catalog, n) \subseteq StoredIdents(catalog', n)]_vars

\* C3: when run() returns after a successful login, every entry of the manual
\* store is in the catalog (by ExternalId)
C3_ManualMergedAtReturn ==
    op = "run_return"
        => /\ StoredIds(manual.movies) \subseteq StoredIds(catalog.movies)
           /\ StoredIds(manual.tv_shows) \subseteq StoredIds(catalog.tv_shows)

NoDuplicateIds(list) ==
    \A i, j \in 1..Len(list) :
        (i # j /\ Truthy(list[i].tmdb_id) /\ Truthy(list[j].tmdb_id))
            => Str(list[i].tmdb_id) # Str(list[j].tmdb_id)

\* C5: the catalog never holds two movie entries, or two series entries, for
\* the same ExternalId
C5_NoDuplicateExternalId ==
    NoDuplicateIds(catalog.movies) /\ NoDuplicateIds(catalog.tv_shows)

\* C7: after a merge of an entry carrying an ExternalId the scan-cache holds
\* that ExternalId with the time of the merge
C7_MergeRecordsScan ==
    (mergeLog.some /\ Truthy(mergeLog.entry.tmdb_id))
        => ScanMap(scan, mergeLog.kind)[Str(mergeLog.entry.tmdb_id)] = mergeLog.time

\* C12: a run() whose login fails ends in that step: the process is over
\* (no sweep, no title waiting to be processed, no token), and the catalog
\* file, the scan cache and the manual store are what they were
C12_LoginFailureEndsRun ==
    [][op' = "run_login_failed"
         => /\ pc' = "idle" /\ ~token' /\ todo' = NoTodo /\ pending' = NoResult
            /\ catalog' = catalog /\ scan' = scan /\ manual' = manual]_vars

\* C12 witness: a run() ended on a failed login while the catalog file and
\* the manual store held entries
C12_Witness ==
    /\ op = "run_login_failed"
    /\ catalog.exists /\ catalog.movies # <<>>
    /\ manual.movies # <<>>

\* C27: an ExternalId the run has recorded in the scan-cache has an entry in
\* the catalog file, also after an interrupt between two steps: when the run
\* ends right after process_movie marked a title as scanned, the catalog
\* file holds that title
C27_MarkedIsInCatalog ==
    [][(/\ pc = "run_merge_movie" /\ pc' = "idle"
        /\ Truthy(pending.tmdb_id)
        /\ ScanMap(scan', "movie")[Str(pending.tmdb_id)] = clock')
         => Str(pending.tmdb_id) \in StoredIds(catalog'.movies)]_vars

\* C29: a title removed by remove_content stays out of the catalog file for
\* as long as no run() resolves it again and no manual addition adds it: the
\* re-merge of the manual store at the end of run() does not bring it back
C29_RemovalIsDurable ==
    \A n \in removedIds :
        n \notin StoredIds(catalog.movies) \cup StoredIds(catalog.tv_shows)

\* the (season, episode, ident) triples of a seasons dict, the keys read as
\* text
SlotsOf(seasons) ==
    UNION {UNION {{<<Str(seasons[i][1]), Str(seasons[i][2][j][1]), ident>> :
                      ident \in Range(seasons[i][2][j][2])} :
                  j \in 1..Len(seasons[i][2])} :
           i \in 1..Len(seasons)}

\* the triples the catalog file stores for the series with ExternalId n
TvSlots(file, n) ==
    UNION {SlotsOf(file.tv_shows[i].seasons) :
             i \in {j \in 1..Len(file.tv_shows) :
                      Truthy(file.tv_shows[j].tmdb_id) /\ Str(file.tv_shows[j].tmdb_id) = n}}

\* C16: the merge of a series result of the batch run keeps every ident the
\* catalog file stored in a (season, episode) slot of that series in that slot
C16_SlotsOnlyGrow ==
    [][(op' = "merge_batch" /\ mergeLog'.kind = "tv")
         => \A n \in TmdbNums : TvSlots(catalog, n) \subseteq TvSlots(catalog', n)]_vars

-----------------------------------------------------------------------------
(* Properties of the merge (SpecMerge) *)

C6_NoIdKeepsOtherKeys ==
    [][(mergeLog'.some /\ ~Truthy(mergeLog'.entry.tmdb_id))
         => LET list == KindList(catalog, mergeLog'.kind)
                after == KindList(catalog', mergeLog'.kind)
            IN \A i \in 1..Len(list) :
                  list[i].id # mergeLog'.entry.id
                      => \E j \in 1..Len(after) : after[j] = list[i]]_vars

-----------------------------------------------------------------------------
(* Properties of the write (SpecSave) *)

\* C15: at every point, a step inside save_data_immediately and a kill
\* there included, the catalog file on disk parses
C15_CatalogAlwaysWhole ==
    catalog.exists => Parseable(catalog)

\* C30: a merge never drops other titles: the catalog a merge is about to
\* write holds every ExternalId the catalog file held when the merge
\* started, also when the file could not be read or parsed
C30_MergeKeepsOtherTitles ==
    [][op' = "save_start"
         => /\ StoredIds(catalog.movies) \subseteq StoredIds(pending'.movies)
            /\ StoredIds(catalog.tv_shows) \subseteq StoredIds(pending'.tv_shows)]_vars

-----------------------------------------------------------------------------
(* Properties of organize_tv_episodes (SpecOrganize) *)

\* the idents organize_tv_episodes placed in this call
Placed == {t[3] : t \in SlotsOf(tvLog.seasons)} \ {t[3] : t \in SlotsOf(tvLog.existing_seasons)}

\* C17: a file whose name matches neither the English title nor a supplied
\* localized title is not placed; without a localized title a file that
\* fails the English title is not placed
C17_UnmatchedNeverPlaced ==
    tvLog.some =>
        \A i \in 1..Len(tvLog.files) :
            (~tvLog.files[i].matchEn /\ ~(tvLog.has_cz /\ tvLog.files[i].matchCz))
                => tvLog.files[i].ident \notin Placed

\* C24: when two accepted files of one call have different idents and the
\* same (season, episode), both idents are in that slot of the result; and
\* no slot of the result holds an ident twice
C24_SameEpisodeKeepsBothIdents ==
    tvLog.some =>
        /\ \A i, j \in 1..Len(tvLog.files) :
              ( /\ tvLog.files[i].ep /\ tvLog.files[j].ep
                /\ tvLog.files[i].matchEn /\ tvLog.files[j].matchEn
                /\ tvLog.files[i].s = tvLog.files[j].s
                /\ tvLog.files[i].e = tvLog.files[j].e )
              => <<Str(IntId(tvLog.files[j].s)), Str(IntId(tvLog.files[j].e)),
                   tvLog.files[j].ident>> \in SlotsOf(tvLog.seasons)
        /\ \A a \in 1..Len(tvLog.seasons) : \A b \in 1..Len(tvLog.seasons[a][2]) :
              LET slot == tvLog.seasons[a][2][b][2]
              IN  \A x, y \in 1..Len(slot) : slot[x] = slot[y] => x = y

-----------------------------------------------------------------------------
(* Properties of the sweep (SpecSweep) *)

TTL(kind) == IF kind = "movie" THEN 30 * Day ELSE 7 * Day

SweptIds(result) == {result[i].tmdb_id.n : i \in 1..Len(result)}

\* C8: in a sweep at time clock, a listed title marked at T is left out when
\* clock < T + 30 days (7 days for a series); a listed title that is not in
\* the scan cache, or with clock >= T + its limit, is returned unless the
\* sweep stopped at its count
C8_SweepTTL ==
    sweepLog.some =>
        \A n \in Range(sweepLog.listing) :
            LET T == ScanMap(scan, sweepLog.kind)[n]
            IN /\ (T # NotScanned /\ clock < T + TTL(sweepLog.kind))
                     => n \notin SweptIds(sweepLog.result)
               /\ (T = NotScanned \/ clock >= T + TTL(sweepLog.kind))
                     => (n \in SweptIds(sweepLog.result)
                           \/ Len(sweepLog.result) = sweepLog.count)

\* C8 witness: a sweep exactly 30 days after a movie was marked, at a time
\* other than 0, returned that movie
C8_Witness ==
    /\ sweepLog.some /\ sweepLog.kind = "movie"
    /\ \E n \in Range(sweepLog.listing) :
          /\ scan.movies[n] > 0
          /\ clock = scan.movies[n] + 30 * Day
          /\ n \in SweptIds(sweepLog.result)

-----------------------------------------------------------------------------
(* Properties of the request gate (SpecRL) *)

\* C9: any two search requests are sent at least min_request_interval apart
C9_SearchesSpaced ==
    \A i, j \in 1..Len(sent) :
        (i < j /\ sent[i].kind = "search" /\ sent[j].kind = "search")
            => sent[j].time - sent[i].time >= min_request_interval

\* C10: no login request (salt/ or login/) is sent less than
\* min_request_interval after the request sent before it
C10_LoginRequestsSpaced ==
    \A j \in 2..Len(sent) :
        sent[j].kind \in {"salt", "login"}
            => sent[j].time - sent[j - 1].time >= min_request_interval

-----------------------------------------------------------------------------
(* Properties of login() (SpecLogin) *)

\* thread t posts a request of login() in this step
Posted(t) == tpc[t].at \in {"salt", "login"} /\ tpc'[t] # tpc[t]

\* C11: login() makes at most max_retries (3) attempts; the login/ request is
\* posted only after the salt/ request of that attempt was answered OK;
\* login() returns True exactly when a login/ request is accepted, and the
\* token is set then; a failure of the third attempt returns False at once,
\* without a sleep and without another attempt
C11_LoginAtMostThree ==
    [][\A t \in Threads :
          /\ attempt'[t] <= max_retries - 1
          /\ (tpc'[t].at = "login" /\ tpc[t].at # "login")
                => (tpc[t].at = "salt" /\ tpc'[t].resp = "ok")
          /\ (Posted(t) /\ tpc'[t].at = "idle")
                => /\ tpc'[t].ret = "true" <=> (tpc[t].at = "login" /\ tpc'[t].resp = "ok")
                   /\ tpc'[t].ret = "true" => token'
                   /\ tpc'[t].ret \in {"true", "false"}
          /\ (Posted(t) /\ tpc[t].at = "login" /\ tpc'[t].resp = "ok") => tpc'[t].at = "idle"
          /\ (Posted(t) /\ tpc'[t].resp # "ok" /\ attempt[t] = max_retries - 1)
                => (tpc'[t].at = "idle" /\ tpc'[t].ret = "false" /\ wake' = wake)
          /\ (Posted(t) /\ tpc'[t].ret = "false") => attempt[t] = max_retries - 1]_vars

\* C11 witness: a login() has returned False after its third attempt
C11_Witness ==
    \E t \in Threads :
        /\ tpc[t].at = "idle" /\ tpc[t].ret = "false"
        /\ attempt[t] = max_retries - 1
        /\ Len(sent) >= max_retries

-----------------------------------------------------------------------------
(* Properties of the search (SpecSearch) *)

RECURSIVE SumFound(_)
SumFound(requests) ==
    IF requests = <<>> THEN 0 ELSE Head(requests).found + SumFound(Tail(requests))

LastFailed(requests) == requests # <<>> /\ requests[Len(requests)].outcome # "ok"

\* C13: the pages of a query are requested at offsets 0, 100, 200, ... in
\* this order, at most 10 of them (a further request is possible only after
\* fewer than 10); every page before the last requested one held at least 10
\* new video files; the files of the query are never more than max_results
C13_PaginationBounded ==
    LET r == search.requests
    IN /\ \A i \in 1..Len(r) : r[i].offset = (i - 1) * 100
       /\ Len(r) <= 10
       /\ search.pc = "page" => Len(r) < 10
       /\ \A i \in 1..(Len(r) - 1) : r[i].found >= 10
       /\ search.files <= batch_max(search.content_type)

\* C13 witness: a query ended after its tenth page, at the offset ceiling
C13_Witness ==
    /\ search.pc = "batch"
    /\ Len(search.requests) = 10
    /\ search.requests[10].outcome = "ok" /\ search.requests[10].found >= 10
    /\ search.files < batch_max(search.content_type)

\* C14: no page is requested after a failed page of the same query; the
\* query whose last page failed returns exactly the files of its earlier
\* pages; and search_webshare_comprehensive then starts the next variation
\* (unless it has its max_results or no variation is left)
C14_FailedPageTruncates ==
    [][LET r == search.requests
       IN /\ \A i \in 1..(Len(r) - 1) : r[i].outcome = "ok"
          /\ (search.pc = "batch" /\ LastFailed(r))
                => /\ search.files = SumFound(r)
                   /\ search'.pc \in {"page", "returned"}
                   /\ (search.variation < search.variations
                          /\ search'.total < comprehensive_max_results)
                        => /\ search'.pc = "page"
                           /\ search'.variation = search.variation + 1
                           /\ search'.requests = <<>>]_vars

\* C14 witness: the third page of the first of two queries failed, and the
\* query returned the files of its first two pages
C14_Witness ==
    /\ search.pc = "batch"
    /\ Len(search.requests) = 3 /\ LastFailed(search.requests)
    /\ search.files >= 2 * low_yield
    /\ search.variation < search.variations

-----------------------------------------------------------------------------
(* Properties of the ranking (SpecRank) *)

\* the score rank_streams gave to the stream at position i of its input
ScoreOf(i) == (CHOOSE r \in Range(rank.ranked) : r.index = i).score

MaxQualityValue == QualityValue(OrDefault(rank.settings.max_quality, "4K"), 5)
TargetQualityValue == QualityValue(OrDefault(rank.settings.autoplay_resolution, "1080p"), 4)
PreferredLang == OrDefault(rank.settings.preferred_language, "English")
StreamQualityValue(i) == QualityValue(rank.streams[i].quality, 1)

\* the two streams of the input differ in quality only: i is 1080p, j is 480p
Pair1080p480p(i, j) ==
    /\ Len(rank.streams) = 2
    /\ i \in DOMAIN rank.streams /\ j \in DOMAIN rank.streams
    /\ rank.streams[i].quality = "1080p"
    /\ rank.streams[j].quality = "480p"
    /\ rank.streams[i].languages = rank.streams[j].languages
    /\ rank.streams[i].size = rank.streams[j].size

Prefers1080p(i, j) ==
    /\ ScoreOf(i) > ScoreOf(j)
    /\ rank.call = "get_autoplay_stream" => rank.choice = i

\* C18 as stated: with the target quality 1080p and any maximum quality,
\* preferred language and HDR flag, of two streams identical except that one
\* is 1080p and the other 480p the 1080p stream scores strictly higher and is
\* the one get_autoplay_stream selects.
C18_Target1080pAnyMaximum ==
    (rank.some /\ TargetQualityValue = 4) =>
        \A i, j \in 1..MaxStreams : Pair1080p480p(i, j) => Prefers1080p(i, j)

\* C18, amended: with the target quality 1080p and a maximum quality of 1080p
\* or above, of two streams identical except that one is 1080p and the other
\* 480p the 1080p stream scores strictly higher and is the one
\* get_autoplay_stream selects.
C18_Target1080pWithinMaximum ==
    (rank.some /\ TargetQualityValue = 4 /\ MaxQualityValue >= 4) =>
        \A i, j \in 1..MaxStreams : Pair1080p480p(i, j) => Prefers1080p(i, j)

C18_Witness ==
    /\ rank.some
    /\ rank.call = "get_autoplay_stream"
    /\ TargetQualityValue = 4
    /\ rank.settings.max_quality = "1080p"
    /\ rank.settings.preferred_language = "Czech"
    /\ rank.settings.prefer_hdr
    /\ Pair1080p480p(2, 1)
    /\ rank.choice = 2

\* C19: of two streams equal in every other attribute and both within the
\* maximum quality, the one that matches the target quality exactly and has
\* no preferred-language tag scores strictly higher than the one that has the
\* preferred language and is one or more tiers away from the target quality.
C19_QualityBeatsLanguage ==
    rank.some =>
        \A i, j \in DOMAIN rank.streams :
            ( /\ StreamQualityValue(i) <= MaxQualityValue
              /\ StreamQualityValue(j) <= MaxQualityValue
              /\ StreamQualityValue(i) = TargetQualityValue
              /\ StreamQualityValue(j) # TargetQualityValue
              /\ rank.streams[i].size = rank.streams[j].size
              /\ PreferredLang \notin rank.streams[i].languages
              /\ PreferredLang \in rank.streams[j].languages )
            => ScoreOf(i) > ScoreOf(j)

HasPreferred == {i \in DOMAIN rank.streams : PreferredLang \in rank.streams[i].languages}
TopScore == CHOOSE s \in {ScoreOf(i) : i \in DOMAIN rank.streams} :
                \A i \in DOMAIN rank.streams : ScoreOf(i) <= s

\* C20: get_autoplay_stream returns the highest-scored stream when its score
\* is at least 50; otherwise the first stream of the input whose languages
\* contain the preferred language; otherwise the first stream of the input.
\* What it returns is a stream of the input, and it returns None only for an
\* empty input.
C20_AutoplaySelection ==
    (rank.some /\ rank.call = "get_autoplay_stream") =>
        /\ rank.choice \in 0..Len(rank.streams)
        /\ rank.choice = 0 <=> rank.streams = <<>>
        /\ rank.streams # <<>> =>
              IF TopScore >= 50
              THEN ScoreOf(rank.choice) = TopScore
              ELSE IF HasPreferred # {}
                   THEN rank.choice \in HasPreferred
                        /\ \A i \in HasPreferred : rank.choice <= i
                   ELSE rank.choice = 1

C20_Witness ==
    /\ rank.some
    /\ rank.call = "get_autoplay_stream"
    /\ Len(rank.streams) = 2
    /\ TopScore < 50
    /\ ScoreOf(2) > ScoreOf(1)
    /\ rank.choice = 1

\* C26: of two streams within the maximum quality that are identical except
\* for quality tier and file size, the one whose tier is closer to the target
\* quality scores strictly higher, whatever the two sizes are.
C26_SizeNeverOverturnsQuality ==
    rank.some =>
        \A i, j \in DOMAIN rank.streams :
            ( /\ StreamQualityValue(i) <= MaxQualityValue
              /\ StreamQualityValue(j) <= MaxQualityValue
              /\ rank.streams[i].languages = rank.streams[j].languages
              /\ Abs(StreamQualityValue(i) - TargetQualityValue)
                    < Abs(StreamQualityValue(j) - TargetQualityValue) )
            => ScoreOf(i) > ScoreOf(j)

\* C28: a stream whose languages contain the preferred language (which is
\* not 'Any') scores at least 50 under every setting; so when
\* get_autoplay_stream finds the top score under 50 no stream has the
\* preferred language, and it never returns from its language fallback.
C28_PreferredClearsFloor ==
    rank.some =>
        /\ PreferredLang # "Any" => \A i \in HasPreferred : ScoreOf(i) >= 50
        /\ rank.call = "get_autoplay_stream" =>
              /\ rank.via # "language"
              /\ (rank.streams # <<>> /\ TopScore < 50 /\ PreferredLang # "Any")
                    => HasPreferred = {}

\* the lowest score a stream with the preferred language gets: it exceeds
\* the maximum quality and has HDR that the user does not prefer
C28_Witness ==
    /\ rank.some
    /\ rank.call = "get_autoplay_stream"
    /\ PreferredLang # "Any"
    /\ \E i \in HasPreferred : ScoreOf(i) = 150 - 30 - 10
    /\ rank.via = "top"

-----------------------------------------------------------------------------
(* Properties of generate_content_id (SpecKey) *)

\* C22: generate_content_id(title, year) is a function of the lowercased,
\* trimmed title and the year: the key is the same for every title that has
\* the same letters in another case, and, for any year, for every title that
\* differs in leading or trailing whitespace only.
C22_KeyOfNormalizedTitle ==
    applied.fn = "generate_content_id" =>
        \A title \in Titles :
            Strip(LowerSeq(title)) = Strip(LowerSeq(applied.title))
                => generate_content_id(title, applied.year) = applied.key

-----------------------------------------------------------------------------
(* Properties of search_webshare_paginated (SpecPages) *)

\* C25: the list search_webshare_paginated builds, and returns, never holds
\* two files with the same ident, whatever the pages hold: a hit repeated
\* within a page or on a later page is taken once
C25_NoIdentTwice ==
    applied.fn = "search_webshare_paginated" =>
        \A i, j \in 1..Len(applied.files) :
            applied.files[i] = applied.files[j] => i = j

\* returned after a second page: on it an ident of the first page came again
C25_Witness ==
    /\ applied.fn = "search_webshare_paginated"
    /\ applied.pc = "done"
    /\ applied.offset = page_limit
    /\ applied.hits > applied.found_in_batch
    /\ Len(applied.files) > low_yield
    /\ NoIdent \in applied.seen_files

-----------------------------------------------------------------------------
(* Properties of the candidate filter (SpecFilter) *)

\* C21: the candidate filter never raises, whatever the title and the file
\* name are: not for a title without any word between its separators, and
\* not for a title with a pattern metacharacter in strict mode
C21_FilterNeverRaises ==
    applied.fn \in {"filename_contains_title", "find_movie_files"}
        => applied.raised = "none"

\* C23: for the title "The Matrix" and the year 1999 find_movie_files does
\* not keep the file "The Matrix Revisited Documentary 1999.mkv"
C23_LongerTitleExcluded ==
    ( /\ applied.fn = "find_movie_files"
      /\ applied.title = TheMatrix
      /\ applied.year = <<"1", "9", "9", "9">>
      /\ applied.name = MatrixRevisited )
    => applied.outcome # "keep"

=============================================================================
